---------------------------- MODULE Spec2Model ----------------------------
(***************************************************************************)
(* A model of git-req: the repository-local history markers, the git-req   *)
(* configuration store with its legacy migration, and the branch checkout  *)
(* engine together with the orchestrator that drives it.                   *)
(*                                                                         *)
(* One action models one call of a function of the program (or one CLI     *)
(* invocation for the orchestrator).  `ret` holds the outcome of the last  *)
(* call, `cmds` the git subprocesses it ran.                                *)
(***************************************************************************)
EXTENDS Integers, Sequences, FiniteSets, TLC

VARIABLES
    config,        \* repository git config: key -> Option<String>
    req_config,    \* global ~/.gitreqconfig: key -> Option<String>
    git_req_refs,  \* the refs git-req/current and git-req/previous -> oid
    heads,         \* local branches (names under refs/heads/)
    remote_refs,   \* remote-tracking refs (names under refs/remotes/)
    HEAD,          \* what is checked out
    call,          \* arguments of the checkout_branch call of the last operation
                   \* and the local branch name it computed (git.rs:183);
                   \* NoCheckout after a command line that made no such call
    ret,           \* outcome of the last call
    cmds,          \* git subprocesses run by the last call, in order
    exits,         \* whether each of those subprocesses succeeded
    api,           \* API requests (URLs) issued by the last call, in order
    remote,        \* the Remote instance built by the last get_remote
    recorded,      \* log of the push_current_ref calls: id and outcome of each
    git_remotes    \* the remotes configured in the repository: name -> URL

vars == <<config, req_config, git_req_refs, heads, remote_refs, HEAD, call, ret, cmds, exits,
          api, remote, recorded, git_remotes>>

-----------------------------------------------------------------------------
(* Bounds of the model *)

MaxReq == 3
MaxPushes == 3
MaxBranches == 2
MaxMainBranches == 1

\* Remote names, project ids as stored in the config.
RemoteNames == {"origin", "upstream"}

\* A name `--use-remote` may be given that is no remote of the repository
\* with an origin.
UnknownRemote == "fork"
ProjectIds == {"101", "202"}

\* Request ids: 5, 7, 9, ... and two ids whose encoding uses more than one
\* byte pattern (a negative one and one above 255).
ReqIds == {2 * k + 3 : k \in 1..MaxReq} \cup {-2, 258}

\* Request ids a Remote instance is asked about.
RemoteReqIds == {5, 42, -2}

\* The request ids the command line is given in the model.
MainIds == {7}

-----------------------------------------------------------------------------
(* Option<T> and Result<T> *)

None == [some |-> FALSE, v |-> ""]
Some(x) == [some |-> TRUE, v |-> x]

\* The outcome of a call: kind is "Ok", "Err", "Panic" (unwrap/expect/panic!)
\* or "Exit" (process::exit(1) after a message), "Some"/"None" for an Option;
\* arg is the remote name the call was given (if any), num and str carry the
\* value returned (for the command line: the request id and the result or
\* message), req is the REQUEST_ID argument as typed.  For a call that asked
\* the API, items is the list returned and status and body are the reply;
\* skip and origin are the arguments of get_remote, prompts the number of
\* times it asked the user for an API token.
Outcome(op, arg, kind, num, str) ==
    [op |-> op, arg |-> arg, kind |-> kind, num |-> num, str |-> str, req |-> "",
     items |-> <<>>, status |-> 0, body |-> <<>>, skip |-> FALSE, origin |-> <<>>,
     prompts |-> 0]

MainOutcome(req, remote_name, kind, num, str) ==
    [Outcome("main", remote_name, kind, num, str) EXCEPT !.req = req]

NoCall == Outcome("", "", "Ok", 0, "")

-----------------------------------------------------------------------------
(* History markers *)

CurrentRef == "git-req/current"
PreviousRef == "git-req/previous"

\* An oid names a blob by its content, so the model identifies the two: the
\* oid of a blob is its byte sequence; NoOid stands for a ref that does not exist.
NoOid == <<>>

\* i64::to_le_bytes: the two's complement of n in 8 bytes, least significant
\* first.  (Values stay inside 32 bits here, so bytes 5..8 are sign bytes.)
Byte(n, i) ==
    LET d == IF i = 1 THEN 1 ELSE IF i = 2 THEN 256
             ELSE IF i = 3 THEN 65536 ELSE 16777216
    IN  IF n >= 0
        THEN IF i <= 4 THEN (n \div d) % 256 ELSE 0
        ELSE IF i <= 4 THEN 255 - (((-(n + 1)) \div d) % 256) ELSE 255

ToLeBytes(n) == [i \in 1..8 |-> Byte(n, i)]

\* i64::from_le_bytes: the value of 8 little-endian bytes in two's complement
\* (for a negative value, computed over the complemented bytes).
RECURSIVE Magnitude(_, _, _)
Magnitude(b, i, neg) ==
    IF i > Len(b) THEN 0
    ELSE (IF neg THEN 255 - b[i] ELSE b[i]) + 256 * Magnitude(b, i + 1, neg)

FromLeBytes(b) ==
    IF b[8] >= 128 THEN -(Magnitude(b, 1, TRUE)) - 1 ELSE Magnitude(b, 1, FALSE)

\* repo.blob(&data): the oid of the blob holding `data`.
Blob(data) == data

\* repo.find_reference(name): Some oid, or none when the ref does not exist.
FindReference(refs, name) == refs[name]

\* git::get_previous_mr_id as a function of the refs.
PreviousMrId(refs) ==
    LET oid == FindReference(refs, PreviousRef)
    IN  IF oid = NoOid
        THEN Outcome("get_previous_mr_id", "", "Err", 0, "reference not found")
        ELSE IF Len(oid) # 8
        THEN Outcome("get_previous_mr_id", "", "Err", 0, "could not convert slice to array")
        ELSE Outcome("get_previous_mr_id", "", "Ok", FromLeBytes(oid), "")

\* Mutants of PushRefs: the old current is not moved to previous; previous
\* is written even when there was no current.
PushRefs_NoRotate(refs, n, prev_ok, cur_ok) ==
    IF cur_ok THEN [refs EXCEPT ![CurrentRef] = Blob(ToLeBytes(n))] ELSE refs

PushRefs_AlwaysPrevious(refs, n, prev_ok, cur_ok) ==
    [refs EXCEPT ![PreviousRef] = Blob(ToLeBytes(n)), ![CurrentRef] = Blob(ToLeBytes(n))]

\* The refs after git::push_current_ref(n): prev_ok and cur_ok say whether
\* the two reference writes succeed.
PushRefs(refs, n, prev_ok, cur_ok) ==
    LET old_oid == FindReference(refs, CurrentRef)
        new_oid == Blob(ToLeBytes(n))
        r1 == IF old_oid # NoOid /\ prev_ok
              THEN [refs EXCEPT ![PreviousRef] = old_oid] ELSE refs
    IN  IF old_oid # NoOid /\ ~prev_ok THEN refs
        ELSE IF cur_ok THEN [r1 EXCEPT ![CurrentRef] = new_oid] ELSE r1

\* A call that runs no git subprocess, issues no API request and builds no
\* Remote.
\* The value of `call` after an operation that made no checkout_branch call.
NoCheckout == [remote |-> "", remote_branch |-> "", local_branch |-> "",
               virtual |-> FALSE, local_name |-> "", path |-> ""]

NoSubprocess ==
    /\ cmds' = <<>>
    /\ exits' = <<>>
    /\ api' = <<>>
    /\ UNCHANGED remote

PushOutcome(refs, n, prev_ok, cur_ok) ==
    IF FindReference(refs, CurrentRef) # NoOid /\ ~prev_ok
    THEN Outcome("push_current_ref", "", "Panic", n, "unwrap on Err")
    ELSE IF cur_ok THEN Outcome("push_current_ref", "", "Ok", n, "")
    ELSE Outcome("push_current_ref", "", "Err", n, "failed to write reference")

get_previous_mr_id ==
    /\ ret' = PreviousMrId(git_req_refs)
    /\ NoSubprocess
    /\ UNCHANGED <<config, req_config, git_req_refs, heads, remote_refs, HEAD, call, recorded, git_remotes>>

push_current_ref(n, prev_ok, cur_ok) ==
    /\ Len(recorded) < MaxPushes
    /\ git_req_refs' = PushRefs(git_req_refs, n, prev_ok, cur_ok)
    /\ ret' = PushOutcome(git_req_refs, n, prev_ok, cur_ok)
    /\ recorded' = Append(recorded, [id |-> n, kind |-> ret'.kind])
    /\ NoSubprocess
    /\ call' = NoCheckout
    /\ UNCHANGED <<config, req_config, heads, remote_refs, HEAD, git_remotes>>

-----------------------------------------------------------------------------
(* Configuration store *)

\* format!("req.{}", field_name)
ProjectKey(field_name) == "req." \o field_name

\* format!("req.{}.{}", remote_name, field_name)
RemoteKey(remote_name, field_name) == "req." \o remote_name \o "." \o field_name

ConfigKeys ==
    {ProjectKey("projectid"), ProjectKey("defaultremote")}
        \cup {RemoteKey(r, "projectid") : r \in RemoteNames \cup {UnknownRemote}}

\* cfg.get_string(key).ok()
GetString(cfg, key) == IF key \in DOMAIN cfg THEN cfg[key] ELSE None

\* cfg.set_str(key, value)
SetStr(cfg, key, value) == [cfg EXCEPT ![key] = Some(value)]

\* cfg.remove(key), which fails when the key is not set
CanRemove(cfg, key) == GetString(cfg, key).some
Remove(cfg, key) == [cfg EXCEPT ![key] = None]

\* git::migrate_legacy
\* Mutant of MigrateLegacy: the old key is copied but not removed.
MigrateLegacy_KeepOld(cfg, field_name, remote_name) ==
    LET old == GetString(cfg, ProjectKey(field_name))
    IN  IF old.some
        THEN SetStr(cfg, RemoteKey(remote_name, field_name), old.v)
        ELSE cfg

MigrateLegacy(cfg, field_name, remote_name) ==
    LET old == GetString(cfg, ProjectKey(field_name))
    IN  IF old.some
        THEN Remove(SetStr(cfg, RemoteKey(remote_name, field_name), old.v),
                    ProjectKey(field_name))
        ELSE cfg

\* The remote name every caller of migrate_legacy passes.
MigrationRemote == "origin"

\* git::get_config: the config after the call, and the value returned.
GetConfigStore(cfg, field_name, remote_name) ==
    MigrateLegacy(cfg, field_name, MigrationRemote)

GetConfigValue(cfg, field_name, remote_name) ==
    GetString(GetConfigStore(cfg, field_name, remote_name),
              RemoteKey(remote_name, field_name))

\* git::get_project_config
GetProjectConfig(cfg, field_name) == GetString(cfg, ProjectKey(field_name))

OptionOutcome(op, arg, num, opt) ==
    IF opt.some THEN Outcome(op, arg, "Some", num, opt.v)
    ELSE Outcome(op, arg, "None", num, "")

\* 1 when migrate_legacy finds the old key (git.rs:16), else 0.
Migrates(cfg, field_name) == IF GetString(cfg, ProjectKey(field_name)).some THEN 1 ELSE 0

Untouched == UNCHANGED <<req_config, git_req_refs, heads, remote_refs, HEAD, call, recorded, git_remotes>>

migrate_legacy(field_name, remote_name) ==
    /\ config' = MigrateLegacy(config, field_name, remote_name)
    /\ ret' = Outcome("migrate_legacy", remote_name, "Ok", Migrates(config, field_name), "")
    /\ NoSubprocess
    /\ Untouched

get_config(field_name, remote_name) ==
    /\ config' = GetConfigStore(config, field_name, remote_name)
    /\ ret' = OptionOutcome("get_config", remote_name, Migrates(config, field_name),
                            GetConfigValue(config, field_name, remote_name))
    /\ NoSubprocess
    /\ Untouched

set_config(field_name, remote_name, value) ==
    /\ config' = SetStr(MigrateLegacy(config, field_name, MigrationRemote),
                        RemoteKey(remote_name, field_name), value)
    /\ ret' = Outcome("set_config", remote_name, "Ok", 0, value)
    /\ NoSubprocess
    /\ Untouched

delete_config(field_name, remote_name) ==
    LET migrated == MigrateLegacy(config, field_name, MigrationRemote)
        key == RemoteKey(remote_name, field_name)
    IN  /\ IF CanRemove(migrated, key)
           THEN /\ config' = Remove(migrated, key)
                /\ ret' = Outcome("delete_config", remote_name, "Ok", 0, "")
           ELSE /\ config' = migrated
                /\ ret' = Outcome("delete_config", remote_name, "Panic", 0, "unwrap on Err")
        /\ NoSubprocess
        /\ Untouched

get_project_config(field_name) ==
    /\ ret' = OptionOutcome("get_project_config", "", 0, GetProjectConfig(config, field_name))
    /\ NoSubprocess
    /\ UNCHANGED config
    /\ Untouched

set_project_config(field_name, value) ==
    /\ config' = SetStr(config, ProjectKey(field_name), value)
    /\ ret' = Outcome("set_project_config", "", "Ok", 0, value)
    /\ NoSubprocess
    /\ Untouched

\* The superseded revision of the tool stored the project id unscoped.
legacy_set_config(field_name, value) ==
    /\ config' = SetStr(config, ProjectKey(field_name), value)
    /\ ret' = Outcome("legacy_set_config", "", "Ok", 0, value)
    /\ NoSubprocess
    /\ Untouched

-----------------------------------------------------------------------------
(* Branch checkout engine *)

OnBranch(name) == [branch |-> TRUE, name |-> name]
Detached(name) == [branch |-> FALSE, name |-> name]

\* Mutant of LocalBranchName: the req/ form whenever the name is prefixed.
LocalBranchName_AlwaysReq(default_remote, remote_name, local_branch_name) ==
    IF default_remote.some /\ remote_name = default_remote.v
    THEN local_branch_name
    ELSE "req/" \o remote_name \o "/" \o local_branch_name

\* git.rs:183-197: the local branch name checkout_branch works with.
LocalBranchName(default_remote, remote_name, local_branch_name) ==
    IF default_remote.some
    THEN IF remote_name # default_remote.v
         THEN "req/" \o remote_name \o "/" \o local_branch_name
         ELSE local_branch_name
    ELSE remote_name \o "/" \o local_branch_name

\* repo.revparse_single(name).is_ok(): a short name resolves to a local
\* branch (refs/heads/) or to a remote-tracking ref (refs/remotes/).
Resolves(hs, rs, name) == name \in hs \/ name \in rs

\* Mutant of HeadIsBranch: the current branch is never recognised.
HeadIsBranch_Never(h, name) == FALSE

\* head.is_branch() && head.name() == "refs/heads/<name>"
HeadIsBranch(h, name) == h.branch /\ h.name = name

\* Mutant of FetchCmd: the fetched ref is never bound to the local name.
FetchCmd_NeverBinds(remote_name, remote_branch_name, local_name, is_virtual) ==
    <<"git", "fetch", remote_name, remote_branch_name>>

\* The subprocesses, as argument vectors.
FetchCmd(remote_name, remote_branch_name, local_name, is_virtual) ==
    <<"git", "fetch", remote_name,
      IF is_virtual THEN remote_branch_name \o ":" \o local_name
                    ELSE remote_branch_name>>

PlainCheckoutCmd(local_name) == <<"git", "checkout", local_name>>

NewBranchCheckoutCmd(remote_name, remote_branch_name, local_name) ==
    <<"git", "checkout", "-b", local_name, remote_name \o "/" \o remote_branch_name>>

\* git.rs:232-247: the checkout that follows a fetch.
CheckoutCmd(remote_name, remote_branch_name, local_name, is_virtual) ==
    IF is_virtual THEN PlainCheckoutCmd(local_name)
    ELSE NewBranchCheckoutCmd(remote_name, remote_branch_name, local_name)

\* Mutant of FetchPathCmds: the checkout runs whatever the fetch did.
FetchPathCmds_AlwaysCheckout(fetch, checkout, fetch_ok) == <<fetch, checkout>>

\* git.rs:226-231: the subprocesses of the fetch path; a failed fetch
\* returns before the checkout.
FetchPathCmds(fetch, checkout, fetch_ok) ==
    IF fetch_ok THEN <<fetch, checkout>> ELSE <<fetch>>

\* What a successful `git checkout <name>` leaves checked out: the local
\* branch of that name if there is one, else a detached HEAD at the ref.
AfterPlainCheckout(hs, name) == IF name \in hs THEN OnBranch(name) ELSE Detached(name)

\* Mutant of CheckoutPath: an existing local name is left alone.
CheckoutPath_ExistingUnchanged(hs, rs, h, local_name) ==
    IF Resolves(hs, rs, local_name) THEN "unchanged" ELSE "fetch"

\* Mutant of CheckoutPath: an existing local name is fetched again.
CheckoutPath_AlwaysFetch(hs, rs, h, local_name) ==
    IF Resolves(hs, rs, local_name) /\ HeadIsBranch(h, local_name)
    THEN "unchanged" ELSE "fetch"

\* The path checkout_branch takes: "unchanged", "existing" or "fetch".
CheckoutPath(hs, rs, h, local_name) ==
    IF Resolves(hs, rs, local_name)
    THEN IF HeadIsBranch(h, local_name) THEN "unchanged" ELSE "existing"
    ELSE "fetch"

\* An error of checkout_branch is returned to a direct caller; checkout_mr
\* prints it and ends the process with exit(1) (main.rs:68-74).
ErrKind(op) == IF op = "main" THEN "Exit" ELSE "Err"

\* git::checkout_branch, called with the config `cfg`.  The exit statuses
\* of the subprocesses it runs (fetch_ok, checkout_ok) are the environment's.
checkout_branch_core(o, cfg, remote_name, remote_branch_name, local_branch_name, is_virtual) ==
    LET local_name == LocalBranchName(GetProjectConfig(cfg, "defaultremote"),
                                      remote_name, local_branch_name)
        path == CheckoutPath(heads, remote_refs, HEAD, local_name)
        fetch == FetchCmd(remote_name, remote_branch_name, local_name, is_virtual)
        checkout == CheckoutCmd(remote_name, remote_branch_name, local_name, is_virtual)
        changed == [o EXCEPT !.kind = "Ok", !.str = "BranchChanged"]
        unchanged == [o EXCEPT !.kind = "Ok", !.str = "BranchUnchanged"]
        fetch_failed == [o EXCEPT !.kind = ErrKind(o.op),
                                  !.str = "Could not fetch remote branch"]
        checkout_failed == [o EXCEPT !.kind = ErrKind(o.op),
                                     !.str = "Could not check out local branch"]
    IN  /\ call' = [remote |-> remote_name, remote_branch |-> remote_branch_name,
                    local_branch |-> local_branch_name, virtual |-> is_virtual,
                    local_name |-> local_name]
        /\ CASE path = "unchanged" ->
                  /\ ret' = unchanged
                  /\ cmds' = <<>>
                  /\ exits' = <<>>
                  /\ UNCHANGED <<heads, remote_refs, HEAD>>
             [] path = "existing" ->
                  /\ cmds' = <<PlainCheckoutCmd(local_name)>>
                  /\ \E checkout_ok \in BOOLEAN :
                        /\ exits' = <<checkout_ok>>
                        /\ IF checkout_ok
                           THEN /\ ret' = changed
                                /\ HEAD' = AfterPlainCheckout(heads, local_name)
                           ELSE /\ ret' = checkout_failed
                                /\ UNCHANGED HEAD
                  /\ UNCHANGED <<heads, remote_refs>>
             [] path = "fetch" ->
                  \E fetch_ok \in BOOLEAN :
                     /\ cmds' = FetchPathCmds(fetch, checkout, fetch_ok)
                     /\ IF ~fetch_ok
                        THEN /\ exits' = <<FALSE>>
                             /\ ret' = fetch_failed
                             /\ UNCHANGED <<heads, remote_refs, HEAD>>
                        ELSE \E checkout_ok \in BOOLEAN :
                           /\ exits' = <<TRUE, checkout_ok>>
                           /\ ret' = IF checkout_ok THEN changed ELSE checkout_failed
                           /\ HEAD' = IF checkout_ok THEN OnBranch(local_name) ELSE HEAD
                           /\ IF is_virtual
                              THEN \* the fetch created refs/heads/<local_name>
                                   /\ heads' = heads \cup {local_name}
                                   /\ UNCHANGED remote_refs
                              ELSE \* the fetch updated refs/remotes/<remote>/<branch>;
                                   \* checkout -b creates the local branch
                                   /\ remote_refs' = remote_refs
                                         \cup {remote_name \o "/" \o remote_branch_name}
                                   /\ heads' = IF checkout_ok THEN heads \cup {local_name}
                                               ELSE heads

\* The branch names a provider hands to checkout_branch for request id n:
\* a virtual ref bound to pr/<n>, or a real source branch.
BranchArgs ==
    {[remote_branch |-> "pull/5/head", local_branch |-> "pr/5", virtual |-> TRUE],
     [remote_branch |-> "feature", local_branch |-> "feature", virtual |-> FALSE]}

checkout_branch(remote_name, b) ==
    /\ Cardinality(heads) <= MaxBranches
    /\ checkout_branch_core(Outcome("checkout_branch", remote_name, "Ok", 0, ""),
                            config, remote_name, b.remote_branch,
                            b.local_branch, b.virtual)
    /\ api' = <<>>
    /\ UNCHANGED <<config, req_config, git_req_refs, recorded, remote, git_remotes>>

-----------------------------------------------------------------------------
(* Strings as character sequences, for the conversions the program makes *)

\* The String holding the characters of cs.
RECURSIVE Concat(_)
Concat(cs) == IF cs = <<>> THEN "" ELSE Head(cs) \o Concat(Tail(cs))

\* char::is_whitespace, and the regex class \s: the Unicode White_Space
\* characters.  Those a string of this module can hold are U+0009..U+000D,
\* U+0020, U+0085, U+00A0 and U+1680, written here as themselves.
IsSpace(c) ==
    c \in {"\t", "\n", "", "\f", "\r", " ", "", " ", " "}

\* str::trim
RECURSIVE TrimStart(_)
TrimStart(cs) == IF cs # <<>> /\ IsSpace(Head(cs)) THEN TrimStart(Tail(cs)) ELSE cs

RECURSIVE TrimEnd(_)
TrimEnd(cs) ==
    IF cs # <<>> /\ IsSpace(cs[Len(cs)]) THEN TrimEnd(SubSeq(cs, 1, Len(cs) - 1)) ELSE cs

Trim(cs) == TrimEnd(TrimStart(cs))

DigitChars == <<"0", "1", "2", "3", "4", "5", "6", "7", "8", "9">>
IsDigit(c) == \E d \in 1..10 : DigitChars[d] = c
DigitValue(c) == (CHOOSE d \in 1..10 : DigitChars[d] = c) - 1

RECURSIVE DigitsValue(_, _)
DigitsValue(cs, acc) ==
    IF cs = <<>> THEN acc ELSE DigitsValue(Tail(cs), 10 * acc + DigitValue(Head(cs)))

\* str::parse::<i64>: an optional sign, then one or more decimal digits.
ParseI64(cs) ==
    LET signed == cs # <<>> /\ Head(cs) \in {"+", "-"}
        digits == IF signed THEN Tail(cs) ELSE cs
    IN  IF digits = <<>> \/ \E k \in 1..Len(digits) : ~IsDigit(digits[k])
        THEN [ok |-> FALSE, v |-> 0]
        ELSE [ok |-> TRUE,
              v |-> IF signed /\ Head(cs) = "-" THEN -DigitsValue(digits, 0)
                    ELSE DigitsValue(digits, 0)]

\* git::slugify_domain: str::replace(domain, ".", "|")
SlugifyDomain(domain) == [k \in 1..Len(domain) |-> IF domain[k] = "." THEN "|" ELSE domain[k]]

-----------------------------------------------------------------------------
(* Origin URLs and what the program reads out of them *)

\* https://github.com/acme/widget.git
OriginGitHubHttps ==
    <<"h", "t", "t", "p", "s", ":", "/", "/", "g", "i", "t", "h", "u", "b",
      ".", "c", "o", "m", "/", "a", "c", "m", "e", "/", "w", "i", "d", "g",
      "e", "t", ".", "g", "i", "t">>

\* git@github.com:acme/widget
OriginGitHubSsh ==
    <<"g", "i", "t", "@", "g", "i", "t", "h", "u", "b", ".", "c", "o", "m",
      ":", "a", "c", "m", "e", "/", "w", "i", "d", "g", "e", "t">>

\* git@gitlab.example.com:group/subgroup/project.git
OriginGitLabSsh ==
    <<"g", "i", "t", "@", "g", "i", "t", "l", "a", "b", ".", "e", "x", "a",
      "m", "p", "l", "e", ".", "c", "o", "m", ":", "g", "r", "o", "u", "p",
      "/", "s", "u", "b", "g", "r", "o", "u", "p", "/", "p", "r", "o", "j",
      "e", "c", "t", ".", "g", "i", "t">>

\* https://github.example.com/group/project
OriginEnterpriseHttps ==
    <<"h", "t", "t", "p", "s", ":", "/", "/", "g", "i", "t", "h", "u", "b",
      ".", "e", "x", "a", "m", "p", "l", "e", ".", "c", "o", "m", "/", "g",
      "r", "o", "u", "p", "/", "p", "r", "o", "j", "e", "c", "t">>

\* git://github.com/acme/widget.git
OriginGitProtocol ==
    <<"g", "i", "t", ":", "/", "/", "g", "i", "t", "h", "u", "b", ".", "c",
      "o", "m", "/", "a", "c", "m", "e", "/", "w", "i", "d", "g", "e", "t",
      ".", "g", "i", "t">>

\* https://gitlab.example.com/project.git
OriginNoNamespace ==
    <<"h", "t", "t", "p", "s", ":", "/", "/", "g", "i", "t", "l", "a", "b",
      ".", "e", "x", "a", "m", "p", "l", "e", ".", "c", "o", "m", "/", "p",
      "r", "o", "j", "e", "c", "t", ".", "g", "i", "t">>

\* https://github.com/acme/widget
OriginGitHubHttpsNoGit ==
    <<"h", "t", "t", "p", "s", ":", "/", "/", "g", "i", "t", "h", "u", "b",
      ".", "c", "o", "m", "/", "a", "c", "m", "e", "/", "w", "i", "d", "g",
      "e", "t">>

\* git@github.com:acme/widget.git
OriginGitHubSshGit ==
    <<"g", "i", "t", "@", "g", "i", "t", "h", "u", "b", ".", "c", "o", "m",
      ":", "a", "c", "m", "e", "/", "w", "i", "d", "g", "e", "t", ".", "g",
      "i", "t">>

\* ://
OriginNoDomain ==
    <<":", "/", "/">>

\* The origin URLs git may hand the program.
Origins ==
    {OriginGitHubHttps,
     OriginGitHubSsh,
     OriginGitLabSsh,
     OriginEnterpriseHttps,
     OriginGitProtocol,
     OriginNoNamespace,
     OriginGitHubHttpsNoGit,
     OriginGitHubSshGit,
     OriginNoDomain}

IsDomainChar(c) == c \notin {":", "/"}

StartsWith(cs, p, pre) ==
    /\ p + Len(pre) - 1 <= Len(cs)
    /\ SubSeq(cs, p, p + Len(pre) - 1) = pre

\* (http[s]?|ssh)://
Schemes ==
    {<<"h", "t", "t", "p", ":", "/", "/">>,
     <<"h", "t", "t", "p", "s", ":", "/", "/">>,
     <<"s", "s", "h", ":", "/", "/">>}

\* The position after a scheme that starts at s; 0 if none starts there.
AfterScheme(cs, s) ==
    IF \E sc \in Schemes : StartsWith(cs, s, sc)
    THEN s + Len(CHOOSE sc \in Schemes : StartsWith(cs, s, sc))
    ELSE 0

\* The '@' that can end a `\S+@` starting at p.
UserAts(cs, p) ==
    {k \in (p + 1)..Len(cs) : cs[k] = "@" /\ \A j \in p..(k - 1) : ~IsSpace(cs[j])}

SetMax(S) == CHOOSE x \in S : \A y \in S : y <= x
SetMin(S) == CHOOSE x \in S : \A y \in S : x <= y

\* The last position of the longest run of domain characters from p.
DomainEnd(cs, p) ==
    CHOOSE e \in (p - 1)..Len(cs) :
        /\ \A j \in p..e : IsDomainChar(cs[j])
        /\ e = Len(cs) \/ ~IsDomainChar(cs[e + 1])

\* `(\S+@)?(?P<domain>([^:/])+)` from p: where the domain starts, the
\* user part being as long as it can be; 0 if there is no match.
DomainAfterUser(cs, p) ==
    LET from(ats) == IF ats # {} THEN SetMax(ats) + 1
                     ELSE IF p <= Len(cs) /\ IsDomainChar(cs[p]) THEN p
                     ELSE 0
    IN  from({k \in UserAts(cs, p) : k + 1 <= Len(cs) /\ IsDomainChar(cs[k + 1])})

\* The whole pattern tried at s: with the scheme if that matches, else
\* without.
DomainStartAt(cs, s) ==
    LET pick(with_scheme) == IF with_scheme > 0 THEN with_scheme ELSE DomainAfterUser(cs, s)
        after(a) == IF a > 0 THEN DomainAfterUser(cs, a) ELSE 0
    IN  pick(after(AfterScheme(cs, s)))

\* remotes::get_domain: the leftmost match of
\* ((http[s]?|ssh)://)?(\S+@)?(?P<domain>([^:/])+) in the origin.
GetDomain(origin) ==
    LET cut(d) == [ok |-> TRUE, v |-> SubSeq(origin, d, DomainEnd(origin, d))]
        leftmost(starts) == IF starts = {} THEN [ok |-> FALSE, v |-> <<>>]
                            ELSE cut(DomainStartAt(origin, SetMin(starts)))
    IN  leftmost({s \in 1..Len(origin) : DomainStartAt(origin, s) > 0})

DotGit == <<".", "g", "i", "t">>

EndsWith(cs, suf) ==
    Len(suf) <= Len(cs) /\ SubSeq(cs, Len(cs) - Len(suf) + 1, Len(cs)) = suf

\* Mutant of ProjectAt: a final ".git" stays in the project.
ProjectAt_KeepSuffix(cs, p) ==
    LET tail(e, rest) == IF p >= 1 /\ p <= Len(cs) /\ e >= p /\ e + 2 <= Len(cs)
                            /\ \A j \in 1..Len(rest) : ~IsSpace(rest[j])
                         THEN Some(rest)
                         ELSE None
        host(e) == tail(e, SubSeq(cs, e + 2, Len(cs)))
    IN  host(DomainEnd(cs, p))

\* `[^:/]+[:/](?P<project>\S+?)(\.git)?$` from p: the host, a separator,
\* then the project up to the end of the origin, less a final ".git".
ProjectAt(cs, p) ==
    LET strip(rest) == IF Len(rest) > 4 /\ EndsWith(rest, DotGit)
                       THEN SubSeq(rest, 1, Len(rest) - 4) ELSE rest
        tail(e, rest) == IF p >= 1 /\ p <= Len(cs) /\ e >= p /\ e + 2 <= Len(cs)
                            /\ \A j \in 1..Len(rest) : ~IsSpace(rest[j])
                         THEN Some(strip(rest))
                         ELSE None
        host(e) == tail(e, SubSeq(cs, e + 2, Len(cs)))
    IN  host(DomainEnd(cs, p))

ProjectAfterUser(cs, p) ==
    LET from(ats) == ProjectAt(cs, IF ats # {} THEN SetMax(ats) + 1 ELSE p)
    IN  from({k \in UserAts(cs, p) : ProjectAt(cs, k + 1).some})

ProjectStartAt(cs, s) ==
    LET pick(with_scheme) == IF with_scheme.some THEN with_scheme
                             ELSE ProjectAfterUser(cs, s)
        after(a) == IF a > 0 THEN ProjectAfterUser(cs, a) ELSE None
    IN  pick(after(AfterScheme(cs, s)))

\* github::get_github_project_name
GetGithubProjectName(origin) ==
    LET leftmost(starts) == IF starts = {} THEN None
                            ELSE ProjectStartAt(origin, SetMin(starts))
    IN  leftmost({s \in 1..Len(origin) : ProjectStartAt(origin, s).some})

\* str::trim_end_matches(".git")
RECURSIVE TrimEndDotGit(_)
TrimEndDotGit(cs) ==
    IF EndsWith(cs, DotGit) THEN TrimEndDotGit(SubSeq(cs, 1, Len(cs) - 4)) ELSE cs

\* The schemes of a URL with an authority, as GitUrl::parse knows them.
UrlSchemes == Schemes \cup {<<"g", "i", "t", ":", "/", "/">>}

SshScheme == <<"s", "s", "h", ":", "/", "/">>

\* str::trim_end_matches('/')
RECURSIVE TrimEndSlashes(_)
TrimEndSlashes(cs) ==
    IF cs # <<>> /\ cs[Len(cs)] = "/"
    THEN TrimEndSlashes(SubSeq(cs, 1, Len(cs) - 1)) ELSE cs

\* The first position from p on that holds c; 0 if there is none.
FirstIndex(cs, c, p) ==
    LET least(ks) == IF ks = {} THEN 0 ELSE SetMin(ks)
    IN  least({k \in p..Len(cs) : cs[k] = c})

\* What follows the last '/' of cs.
LastSegment(cs) ==
    LET from(ks) == IF ks = {} THEN cs ELSE SubSeq(cs, SetMax(ks) + 1, Len(cs))
    IN  from({k \in 1..Len(cs) : cs[k] = "/"})

\* GitUrl::parse(origin) of the git-url-parse library, for the two forms of
\* remote URL: scheme://[user@]host/path, whose path starts at the first '/'
\* after the host (the ssh scheme drops that '/'), and the scp-like form
\* [user@]host:path, read as ssh://[user@]host/path.  The name is the last
\* segment of the path without its .git suffix.  Anything else (a local
\* path, an empty host) is not a remote the parse answers for here.
GitUrlParse(origin) ==
    LET failed == [ok |-> FALSE, path |-> <<>>, name |-> ""]
        parsed(path) ==
            [ok |-> TRUE, path |-> path,
             name |-> Concat(TrimEndDotGit(LastSegment(path)))]
        from_slash(cs, slash, ssh) ==
            IF slash = 0 THEN parsed(IF ssh THEN <<>> ELSE <<"/">>)
            ELSE parsed(SubSeq(cs, slash + (IF ssh THEN 1 ELSE 0), Len(cs)))
        with_scheme(cs, a) ==
            IF a > Len(cs) \/ cs[a] \in {"/", ":"} THEN failed
            ELSE from_slash(cs, FirstIndex(cs, "/", a), StartsWith(cs, 1, SshScheme))
        scp_like(cs, colon, slash) ==
            IF colon > 1 /\ colon < Len(cs) /\ (slash = 0 \/ colon < slash)
            THEN parsed(SubSeq(cs, colon + 1, Len(cs)))
            ELSE failed
        url(cs) ==
            IF \E sc \in UrlSchemes : StartsWith(cs, 1, sc)
            THEN with_scheme(cs, 1 + Len(CHOOSE sc \in UrlSchemes : StartsWith(cs, 1, sc)))
            ELSE scp_like(cs, FirstIndex(cs, ":", 1), FirstIndex(cs, "/", 1))
    IN  url(TrimEndSlashes(origin))

\* gitlab::get_gitlab_project_name
GetGitlabProjectName(origin) ==
    LET name_of(url) == IF url.ok THEN Some(url.name) ELSE None
    IN  name_of(GitUrlParse(origin))

\* The first segment of str::split('/') that is not empty; None if there
\* is none (the program unwraps it).
RECURSIVE FirstSegment(_)
FirstSegment(cs) ==
    IF cs = <<>> THEN None
    ELSE IF Head(cs) = "/" THEN FirstSegment(Tail(cs))
    ELSE Some(SubSeq(cs, 1, CHOOSE e \in 1..Len(cs) :
                                /\ \A j \in 1..e : cs[j] # "/"
                                /\ e = Len(cs) \/ cs[e + 1] = "/"))

\* gitlab::get_gitlab_project_namespace
GetGitlabProjectNamespace(origin) ==
    LET namespace_of(url) == IF url.ok THEN FirstSegment(url.path) ELSE None
    IN  namespace_of(GitUrlParse(origin))

RECURSIVE TrimStartSlashes(_)
TrimStartSlashes(cs) ==
    IF cs # <<>> /\ Head(cs) = "/" THEN TrimStartSlashes(Tail(cs)) ELSE cs

\* Mutant of GetGitlabProjectFullPath: the .git suffix is kept.
GetGitlabProjectFullPath_KeepSuffix(origin) ==
    LET full_path_of(url) == IF url.ok THEN Some(TrimStartSlashes(url.path)) ELSE None
    IN  full_path_of(GitUrlParse(origin))

\* gitlab::get_gitlab_project_full_path
GetGitlabProjectFullPath(origin) ==
    LET full_path_of(url) == IF url.ok
                             THEN Some(TrimEndDotGit(TrimStartSlashes(url.path)))
                             ELSE None
    IN  full_path_of(GitUrlParse(origin))

\* str::replace("/", "%2F"), as a String
RECURSIVE ReplaceEach(_)
ReplaceEach(cs) ==
    IF cs = <<>> THEN ""
    ELSE (IF Head(cs) = "/" THEN "%2F" ELSE Head(cs)) \o ReplaceEach(Tail(cs))

\* What the program reads out of each origin, worked out once.
DomainOf == [o \in Origins |-> GetDomain(o)]
GithubProjectNameOf == [o \in Origins |-> GetGithubProjectName(o)]
GitlabProjectNameOf == [o \in Origins |-> GetGitlabProjectName(o)]
GitlabProjectNamespaceOf == [o \in Origins |-> GetGitlabProjectNamespace(o)]
GitlabProjectFullPathOf == [o \in Origins |-> GetGitlabProjectFullPath(o)]

KnownDomains ==
    LET ok_values(t) == {t[o].v : o \in {x \in DOMAIN t : t[x].ok}}
    IN  ok_values(DomainOf)

\* Str(cs) is the String holding the characters of cs, ReplaceSlashes(cs)
\* the one with each "/" replaced.
Str(cs) == Concat(cs)

ReplaceSlashes(cs) == ReplaceEach(cs)

\* format!("req.{}.{}", slug, field)
ReqKey(domain, field) == "req." \o Str(SlugifyDomain(domain)) \o "." \o field

-----------------------------------------------------------------------------
(* The repository and the providers the orchestrator talks to *)

GitHubDomain == <<"g", "i", "t", "h", "u", "b", ".", "c", "o", "m">>

\* The remotes configured in the repository and their URLs.
RepoRemotes == [origin |-> OriginGitLabSsh, upstream |-> OriginGitHubHttps]

RepoRemoteNames == DOMAIN RepoRemotes

\* The remotes of a repository with several remotes and none named origin:
\* guess_default_remote_name fails there and get_remote_name asks.
ForkRemotes == [fork |-> OriginGitHubSsh, upstream |-> OriginGitHubHttps]

Repositories == {RepoRemotes, ForkRemotes}

\* Lines typed at the "Remote name: " prompt of get_remote_name: a remote
\* followed by Enter, a remote followed by end of input, and no remote.
RemoteNameLines ==
    {<<"u", "p", "s", "t", "r", "e", "a", "m", "\n">>,
     <<"u", "p", "s", "t", "r", "e", "a", "m">>,
     <<"x", "\n">>}

\* The typed lines that hold a newline, as Strings.  libgit2 refuses a key
\* whose subsection holds a newline: set_str and remove fail on
\* req.<name>.projectid for such a name.
NewlineNames ==
    {Str(line) : line \in {l \in RemoteNameLines : \E i \in 1..Len(l) : l[i] = "\n"}}

\* The keys of ~/.gitreqconfig the program may touch.
ReqConfigKeys == {ReqKey(d, "apikey") : d \in KnownDomains}

\* Names `--use-remote` may be given: the remotes of either repository, each
\* of them unknown to the other.
UseRemoteArgs == {None} \cup {Some(r) : r \in RepoRemoteNames \cup {UnknownRemote}}

\* The remotes `--set-project-id` is run for: those of the repository.
SetProjectIdRemoteArgs == {None} \cup {Some(r) : r \in RepoRemoteNames}

\* The arguments of --set-project-id and --set-domain-key.
NewProjectIdArgs == {"202"}
NewDomainKeyArgs == {"k"}

\* REQUEST_ID arguments.
RequestArgs == {<<"5">>, <<"-">>}

\* What the user types at the API token prompt.
KeyLines == {<<" ", "k", "\n">>}

\* The open merge requests of the GitLab project and their source branches.
MrSourceBranch == (5 :> "feature")

-----------------------------------------------------------------------------
(* The provider API and the Remote instances *)

\* An HTTP reply as ureq hands it over: the status (a reply that never
\* arrived is a synthetic 5xx) and the body.  `json` tells whether the body
\* parses as JSON, `doc` which document it then is.
Body(json, doc, id, name, kind, items) ==
    [json |-> json, doc |-> doc, id |-> id, name |-> name, kind |-> kind, items |-> items]

NotJson == Body(FALSE, "", 0, "", "", <<>>)
\* {"message": "..."}: the body GitLab and GitHub send with an error status
MessageDoc == Body(TRUE, "message", 0, "", "", <<>>)
ProjectDoc(id, name) == Body(TRUE, "project", id, name, "", <<>>)
NamespaceDoc(id, kind) == Body(TRUE, "namespace", id, "", kind, <<>>)
ListDoc(items) == Body(TRUE, "list", 0, "", "", items)
\* A merge request: `id` is the database id, `iid` the number shown to users.
MrDoc(id, iid, source_branch) ==
    [json |-> TRUE, doc |-> "mr", id |-> id, name |-> source_branch, kind |-> "",
     items |-> <<>>, iid |-> iid]
\* A pull request: `id` is the database id, `number` what users see.
PrDoc(id, number) ==
    [json |-> TRUE, doc |-> "pr", id |-> id, name |-> "", kind |-> "",
     items |-> <<>>, number |-> number]

Reply(status, body) == [status |-> status, body |-> body]

\* ureq::Response::error(): a 4xx or 5xx status.
IsError(reply) == reply.status >= 400

\* What a call of the API layer comes to: Ok(v), Err(msg) or a panic, and
\* the requests it issued.
ApiResult(kind, v, msg, urls) == [kind |-> kind, v |-> v, msg |-> msg, api |-> urls]

UnableToGetProjectId == "Unable to get the project ID from the GitLab API."

\* Mutant of SearchGitlabProjectId: the projects are listed whatever the
\* namespace lookup said.
SearchGitlabProjectId_AlwaysList(rem, ns, list) ==
    ApiResult("Err", 0, "failed to read projects response",
              <<rem.api_root \o "/namespaces/" \o rem.namespace,
                rem.api_root \o "/groups/0/projects?search=" \o rem.name>>)

\* gitlab::search_gitlab_project_id, with the replies to its two requests.
SearchGitlabProjectId(rem, ns, list) ==
    LET ns_url == rem.api_root \o "/namespaces/" \o rem.namespace
        list_url ==
            IF ns.body.kind = "user"
            THEN rem.api_root \o "/users/" \o ToString(ns.body.id) \o "/projects"
            ELSE rem.api_root \o "/groups/" \o ToString(ns.body.id)
                     \o "/projects?search=" \o rem.name
        matches == {k \in 1..Len(list.body.items) : list.body.items[k].name = rem.name}
    IN  IF IsError(ns)
        THEN ApiResult("Err", 0, IF ns.status = 404 THEN "couldn't find namespace"
                                 ELSE "failed to read response", <<ns_url>>)
        ELSE IF ~ns.body.json
        THEN ApiResult("Err", 0, "malformed response received", <<ns_url>>)
        ELSE IF ns.body.doc # "namespace"
        THEN ApiResult("Panic", 0, "failed to decode response", <<ns_url>>)
        ELSE IF ns.body.kind \notin {"user", "group"}
        THEN ApiResult("Err", 0, "Unknown namespace", <<ns_url>>)
        ELSE IF IsError(list)
        THEN ApiResult("Err", 0, "failed to read projects response", <<ns_url, list_url>>)
        ELSE IF ~list.body.json
        THEN ApiResult("Err", 0, "malformed projects response", <<ns_url, list_url>>)
        ELSE IF list.body.doc # "list"
        THEN ApiResult("Panic", 0, "failed to decode projects response",
                       <<ns_url, list_url>>)
        ELSE IF matches = {}
        THEN ApiResult("Err", 0, "Couldn't find project", <<ns_url, list_url>>)
        ELSE ApiResult("Ok", list.body.items[SetMin(matches)].id, "", <<ns_url, list_url>>)

\* gitlab::query_gitlab_project_id, with the replies to the direct lookup
\* and to the requests of the search.
QueryGitlabProjectId(rem, direct, ns, list) ==
    LET fallback(url, search) ==
            ApiResult(search.kind, search.v,
                      IF search.kind = "Err" THEN UnableToGetProjectId ELSE search.msg,
                      <<url>> \o search.api)
        lookup(url) ==
            IF IsError(direct)
            THEN fallback(url, SearchGitlabProjectId(rem, ns, list))
            ELSE IF ~direct.body.json
            THEN ApiResult("Err", 0, "failed to read response", <<url>>)
            ELSE IF direct.body.doc # "project"
            THEN ApiResult("Panic", 0, "failed to decode response", <<url>>)
            ELSE ApiResult("Ok", direct.body.id, "", <<url>>)
    IN  lookup(rem.api_root \o "/projects/" \o ReplaceSlashes(rem.full_path))

\* Mutant of GitLabGetProjectId: the id is looked up again every time.
GitLabGetProjectId_NoCache(rem, direct, ns, list) ==
    LET as_string(q) == [q EXCEPT !.v = IF q.kind = "Ok" THEN ToString(q.v) ELSE ""]
    IN  as_string(QueryGitlabProjectId(rem, direct, ns, list))

\* GitLab::get_project_id: the id the instance holds or, if it holds none,
\* the one the API gives.
GitLabGetProjectId(rem, direct, ns, list) ==
    LET as_string(q) == [q EXCEPT !.v = IF q.kind = "Ok" THEN ToString(q.v) ELSE ""]
    IN  IF rem.id # "" THEN ApiResult("Ok", rem.id, "", <<>>)
        ELSE as_string(QueryGitlabProjectId(rem, direct, ns, list))

\* gitlab::query_gitlab_branch_name: the status of the reply is not looked
\* at, only its body.
QueryGitlabBranchName(rem, mr_id, reply) ==
    LET url == rem.api_root \o "/projects/" \o rem.id \o "/merge_requests/"
                   \o ToString(mr_id)
    IN  IF ~reply.body.json THEN ApiResult("Err", "", "failed to read response", <<url>>)
        ELSE IF reply.body.doc # "mr"
        THEN ApiResult("Panic", "", "failed to decode response", <<url>>)
        ELSE ApiResult("Ok", reply.body.name, "", <<url>>)

\* remotes::MergeRequest
MergeRequest(id, source_branch) == [id |-> id, source_branch |-> source_branch]

\* gitlab::gitlab_to_mr
GitlabToMr(req) == MergeRequest(req.iid, req.name)

\* github::github_to_mr
GithubToMr(req) == MergeRequest(req.number, "pr/" \o ToString(req.number))

\* gitlab::retrieve_gitlab_project_merge_requests
RetrieveGitlabProjectMergeRequests(rem, reply) ==
    LET url == rem.api_root \o "/projects/" \o rem.id
                   \o "/merge_requests?state=opened&per_page=50&page=1"
        items == reply.body.items
    IN  IF IsError(reply)
        THEN ApiResult("Err", <<>>, IF reply.status = 404 THEN "remote project not found"
                                    ELSE "failed to read response", <<url>>)
        ELSE IF ~reply.body.json
        THEN ApiResult("Panic", <<>>, "malformed API response", <<url>>)
        ELSE IF reply.body.doc # "list" \/ \E k \in 1..Len(items) : items[k].doc # "mr"
        THEN ApiResult("Panic", <<>>, "failed to decode response", <<url>>)
        ELSE ApiResult("Ok", [k \in 1..Len(items) |-> GitlabToMr(items[k])], "", <<url>>)

\* github::retrieve_github_project_pull_requests
RetrieveGithubProjectPullRequests(rem, reply) ==
    LET url == rem.api_root \o "/" \o rem.id \o "/pulls"
        items == reply.body.items
    IN  IF IsError(reply)
        THEN ApiResult("Err", <<>>, IF reply.status = 404 THEN "remote project not found"
                                    ELSE "failed to read API response", <<url>>)
        ELSE IF ~reply.body.json
        THEN ApiResult("Panic", <<>>, "malformed API response", <<url>>)
        ELSE IF reply.body.doc # "list" \/ \E k \in 1..Len(items) : items[k].doc # "pr"
        THEN ApiResult("Panic", <<>>, "failed to decode API response", <<url>>)
        ELSE ApiResult("Ok", [k \in 1..Len(items) |-> GithubToMr(items[k])], "", <<url>>)

\* The instances get_remote builds (mod.rs:100-107, 133-141).
NoRemote ==
    [kind |-> "None", id |-> "", domain |-> "", name |-> "", namespace |-> "",
     full_path |-> <<>>, origin |-> <<>>, api_root |-> "", api_key |-> ""]

GitHubRemote(origin, name) ==
    [kind |-> "GitHub", id |-> name, domain |-> "github.com", name |-> name,
     namespace |-> "", full_path |-> <<>>, origin |-> origin,
     api_root |-> "https://api.github.com/repos", api_key |-> ""]

\* The full_path of a GitLab instance.  The struct has the field
\* (gitlab.rs:15) and query_gitlab_project_id reads it (gitlab.rs:100), but
\* the struct literal of get_remote (mod.rs:133-141) names no full_path: the
\* revision of get_remote that fills it is not among the sources.  The
\* remote identity is described as derived from the origin, full_path being
\* the namespace chain and the name without the .git suffix, which is what
\* get_gitlab_project_full_path computes.
GitLabFullPath(origin) == GitlabProjectFullPathOf[origin].v

GitLabRemote(origin, gitlab_domain, name, namespace) ==
    [kind |-> "GitLab", id |-> "", domain |-> gitlab_domain, name |-> name,
     namespace |-> namespace, full_path |-> GitLabFullPath(origin),
     origin |-> origin, api_root |-> "https://" \o gitlab_domain \o "/api/v4",
     api_key |-> ""]

\* Mutant of IsGitHubDomain: any github host counts.
IsGitHubDomain_AnyHost(domain) ==
    Len(domain) >= 6 /\ SubSeq(domain, 1, 6) = <<"g", "i", "t", "h", "u", "b">>

\* mod.rs:91: the arm `"github.com" =>`
IsGitHubDomain(domain) == domain = GitHubDomain

\* remotes::get_api_key: the number of prompts, one if no key is stored for
\* the domain.
ApiKeyPrompts(rq, domain) ==
    IF GetString(rq, ReqKey(domain, "apikey")).some THEN 0 ELSE 1

\* Mutant of ApiKeyStore: the answer to the prompt is not persisted.
ApiKeyStore_NotPersisted(rq, domain, line) == rq

\* remotes::get_api_key: the key, and the global config after the call.
ApiKeyStore(rq, domain, line) ==
    LET stored(key) == IF GetString(rq, key).some THEN rq
                       ELSE SetStr(rq, key, Str(Trim(line)))
    IN  stored(ReqKey(domain, "apikey"))

\* remotes::get_api_key: the key it returns.
ApiKey(rq, domain, line) ==
    LET read(key) == IF GetString(rq, key).some THEN GetString(rq, key).v
                     ELSE Str(Trim(line))
    IN  read(ReqKey(domain, "apikey"))

\* The replies the GitLab API may give.
ProjectReplies ==
    {Reply(200, ProjectDoc(101, "project")), Reply(200, NotJson),
     Reply(200, MessageDoc), Reply(404, MessageDoc), Reply(500, NotJson)}

NamespaceReplies ==
    {Reply(200, NamespaceDoc(9, "group")), Reply(200, NamespaceDoc(4, "user")),
     Reply(200, NamespaceDoc(3, "other")), Reply(200, NotJson),
     Reply(200, MessageDoc), Reply(404, MessageDoc), Reply(500, NotJson)}

ListedProject(id, name) == [id |-> id, name |-> name]

ProjectListReplies ==
    {Reply(200, ListDoc(<<>>)),
     Reply(200, ListDoc(<<ListedProject(202, "project")>>)),
     Reply(200, ListDoc(<<ListedProject(303, "project-docs"), ListedProject(202, "project")>>)),
     Reply(200, ListDoc(<<ListedProject(303, "project-docs"), ListedProject(404, "Project")>>)),
     Reply(200, NotJson), Reply(200, MessageDoc), Reply(500, NotJson)}

\* The replies a project-id resolution meets: the direct lookup's, the
\* namespace lookup's and the project listing's.  A request that is not
\* issued has one (unread) reply.
SearchReaches(ns) ==
    ~IsError(ns) /\ ns.body.json /\ ns.body.doc = "namespace"
        /\ ns.body.kind \in {"user", "group"}

Unasked == Reply(500, NotJson)

ProjectIdReplies ==
    {<<d, Unasked, Unasked>> : d \in {r \in ProjectReplies : ~IsError(r)}}
    \cup {<<d, n, Unasked>> : d \in {r \in ProjectReplies : IsError(r)},
                              n \in {r \in NamespaceReplies : ~SearchReaches(r)}}
    \cup {<<d, n, l>> : d \in {r \in ProjectReplies : IsError(r)},
                        n \in {r \in NamespaceReplies : SearchReaches(r)},
                        l \in ProjectListReplies}

\* Replies to GET /projects/<id>/merge_requests/<iid>.
MergeRequestReplies(mr_id) ==
    (IF mr_id \in DOMAIN MrSourceBranch
     THEN {Reply(200, MrDoc(7000 + mr_id, mr_id, MrSourceBranch[mr_id]))} ELSE {})
    \cup {Reply(404, MessageDoc), Reply(500, NotJson)}

\* Replies to the listing of the open requests.
RequestListReplies(kind) ==
    {Reply(200, ListDoc(<<>>)),
     Reply(200, ListDoc(IF kind = "GitHub" THEN <<PrDoc(9005, 5), PrDoc(9007, 7)>>
                        ELSE <<MrDoc(7005, 5, "feature"), MrDoc(7007, 7, "fix")>>)),
     Reply(200, NotJson), Reply(200, MessageDoc),
     Reply(404, MessageDoc), Reply(500, NotJson)}

\* What remote.get_project_id() of get_remote (mod.rs:153) can come to on
\* the fresh instance of an origin, over every reply the API may give; the
\* API key of the instance plays no part in it.  Worked out once per origin.
GitLabOrigins ==
    {o \in Origins : DomainOf[o].ok /\ GitlabProjectNameOf[o].some
                        /\ GitlabProjectNamespaceOf[o].some}

GetProjectIdOutcomesOf ==
    [o \in GitLabOrigins |->
        {GitLabGetProjectId(GitLabRemote(o, Str(DomainOf[o].v), GitlabProjectNameOf[o].v,
                                         Str(GitlabProjectNamespaceOf[o].v)),
                            rs[1], rs[2], rs[3]) : rs \in ProjectIdReplies}]

GetProjectIdOutcomes(built) == GetProjectIdOutcomesOf[built.origin]

\* A failure of get_remote: no instance is returned.
GetRemoteErr(remote_name, origin, skip, prompts, cfg, rq, kind, msg, urls) ==
    /\ ret' = [Outcome("get_remote", remote_name, kind, 0, msg)
                  EXCEPT !.skip = skip, !.origin = origin, !.prompts = prompts]
    /\ remote' = NoRemote
    /\ config' = cfg
    /\ req_config' = rq
    /\ api' = urls

\* mod.rs:116-168: the GitLab arm of get_remote.
get_remote_gitlab(remote_name, origin, skip_api_key, domain) ==
    LET asking(prompts) ==
          LET fail(cfg, rq, kind, msg, urls) ==
                  GetRemoteErr(remote_name, origin, skip_api_key, prompts, cfg, rq,
                               kind, msg, urls)
              done(built, rq, id, cfg, urls) ==
                  /\ ret' = [Outcome("get_remote", remote_name, "Ok", 0, id)
                                EXCEPT !.skip = skip_api_key, !.origin = origin,
                                       !.prompts = prompts]
                  /\ remote' = [built EXCEPT !.id = id]
                  /\ config' = cfg
                  /\ req_config' = rq
                  /\ api' = urls
              resolved(built, rq, cfg, q) ==
                  IF q.kind = "Ok"
                  THEN done(built, rq, q.v,
                            SetStr(MigrateLegacy(cfg, "projectid", MigrationRemote),
                                   RemoteKey(remote_name, "projectid"), q.v),
                            q.api)
                  ELSE fail(cfg, rq, q.kind, q.msg, q.api)
              loaded(built, rq, cfg, id) ==
                  IF id.some THEN done(built, rq, id.v, cfg, <<>>)
                  ELSE IF skip_api_key THEN done(built, rq, "", cfg, <<>>)
                  ELSE \E q \in GetProjectIdOutcomes(built) : resolved(built, rq, cfg, q)
          IN  \E line \in KeyLines :
                 loaded([GitLabRemote(origin, Str(domain), GitlabProjectNameOf[origin].v,
                                      Str(GitlabProjectNamespaceOf[origin].v))
                           EXCEPT !.api_key = IF skip_api_key THEN ""
                                              ELSE ApiKey(req_config, domain, line)],
                        IF skip_api_key THEN req_config
                        ELSE ApiKeyStore(req_config, domain, line),
                        GetConfigStore(config, "projectid", remote_name),
                        GetConfigValue(config, "projectid", remote_name))
        named(namespace, name) ==
            IF ~name.some
            THEN GetRemoteErr(remote_name, origin, skip_api_key, 0, config, req_config, "Err",
                      "Could not parse the GitLab project namespace from the origin.", <<>>)
            ELSE IF ~namespace.some
            THEN GetRemoteErr(remote_name, origin, skip_api_key, 0, config, req_config,
                              "Panic", "unwrap on None", <<>>)
            ELSE asking(IF skip_api_key THEN 0 ELSE ApiKeyPrompts(req_config, domain))
    IN  named(GitlabProjectNamespaceOf[origin], GitlabProjectNameOf[origin])

\* mod.rs:91-114: the GitHub arm of get_remote.
get_remote_github(remote_name, origin, skip_api_key) ==
    LET named(name) ==
            IF ~name.some
            THEN GetRemoteErr(remote_name, origin, skip_api_key, 0, config, req_config, "Err",
                     "Could not parse the GitHub project name from the origin.", <<>>)
            ELSE \E line \in KeyLines :
                   /\ ret' = [Outcome("get_remote", remote_name, "Ok", 0, name.v)
                                 EXCEPT !.skip = skip_api_key, !.origin = origin,
                                        !.prompts = IF skip_api_key THEN 0
                                                    ELSE ApiKeyPrompts(req_config, GitHubDomain)]
                   /\ remote' = [GitHubRemote(origin, name.v)
                                   EXCEPT !.api_key = IF skip_api_key THEN ""
                                                      ELSE ApiKey(req_config, GitHubDomain, line)]
                   /\ req_config' = IF skip_api_key THEN req_config
                                    ELSE ApiKeyStore(req_config, GitHubDomain, line)
                   /\ api' = <<>>
                   /\ UNCHANGED config
        as_string(name) == named([name EXCEPT !.v = Str(name.v)])
    IN  as_string(GithubProjectNameOf[origin])

NoGit ==
    /\ cmds' = <<>>
    /\ exits' = <<>>
    /\ UNCHANGED <<git_req_refs, heads, remote_refs, HEAD, call, recorded, git_remotes>>

\* remotes::get_remote
get_remote(remote_name, origin, skip_api_key) ==
    LET matched(domain) ==
            IF ~domain.ok
            THEN GetRemoteErr(remote_name, origin, skip_api_key, 0, config, req_config,
                              "Err", "invalid remote set", <<>>)
            ELSE IF IsGitHubDomain(domain.v)
            THEN get_remote_github(remote_name, origin, skip_api_key)
            ELSE get_remote_gitlab(remote_name, origin, skip_api_key, domain.v)
    IN  /\ matched(DomainOf[origin])
        /\ NoGit

\* Mutant of GitHubRemoteReqBranch: the merge ref instead of the head ref.
GitHubRemoteReqBranch_MergeRef(mr_id) == "pull/" \o ToString(mr_id) \o "/merge"

\* GitHub::get_remote_req_branch
GitHubRemoteReqBranch(mr_id) == "pull/" \o ToString(mr_id) \o "/head"

\* GitHub::get_local_req_branch
GitHubLocalReqBranch(mr_id) == "pr/" \o ToString(mr_id)

\* Remote::get_project_id on the instance
get_project_id ==
    /\ remote.kind # "None"
    /\ IF remote.kind = "GitHub"
       THEN /\ ret' = Outcome("get_project_id", "", "Ok", 0, remote.id)
            /\ api' = <<>>
            /\ UNCHANGED remote
       ELSE \E rs \in IF remote.id # "" THEN {<<Unasked, Unasked, Unasked>>}
                        ELSE ProjectIdReplies :
               LET q == GitLabGetProjectId(remote, rs[1], rs[2], rs[3])
               IN  /\ ret' = [Outcome("get_project_id", "", q.kind, 0,
                                      IF q.kind = "Ok" THEN q.v ELSE q.msg)
                                 EXCEPT !.body = rs]
                   /\ api' = q.api
                   /\ remote' = IF q.kind = "Ok" THEN [remote EXCEPT !.id = q.v] ELSE remote
    /\ NoGit
    /\ UNCHANGED <<config, req_config>>

\* Remote::get_remote_req_branch on the instance
get_remote_req_branch(mr_id) ==
    /\ remote.kind # "None"
    /\ IF remote.kind = "GitHub"
       THEN /\ ret' = Outcome("get_remote_req_branch", "", "Ok", mr_id,
                              GitHubRemoteReqBranch(mr_id))
            /\ api' = <<>>
       ELSE \E reply \in MergeRequestReplies(mr_id) :
               LET q == QueryGitlabBranchName(remote, mr_id, reply)
               IN  /\ ret' = [Outcome("get_remote_req_branch", "", q.kind, mr_id,
                                      IF q.kind = "Ok" THEN q.v ELSE q.msg)
                                 EXCEPT !.status = reply.status, !.body = reply.body]
                   /\ api' = q.api
    /\ NoGit
    /\ UNCHANGED <<config, req_config, remote>>

\* Remote::get_local_req_branch on the instance
get_local_req_branch(mr_id) ==
    /\ remote.kind # "None"
    /\ IF remote.kind = "GitHub"
       THEN /\ ret' = Outcome("get_local_req_branch", "", "Ok", mr_id,
                              GitHubLocalReqBranch(mr_id))
            /\ api' = <<>>
       ELSE \E reply \in MergeRequestReplies(mr_id) :
               LET q == QueryGitlabBranchName(remote, mr_id, reply)
               IN  /\ ret' = [Outcome("get_local_req_branch", "", q.kind, mr_id,
                                      IF q.kind = "Ok" THEN q.v ELSE q.msg)
                                 EXCEPT !.status = reply.status, !.body = reply.body]
                   /\ api' = q.api
    /\ NoGit
    /\ UNCHANGED <<config, req_config, remote>>

\* Remote::get_req_names on the instance
get_req_names ==
    /\ remote.kind # "None"
    /\ \E reply \in RequestListReplies(remote.kind) :
          LET q == IF remote.kind = "GitHub"
                   THEN RetrieveGithubProjectPullRequests(remote, reply)
                   ELSE RetrieveGitlabProjectMergeRequests(remote, reply)
          IN  /\ ret' = [Outcome("get_req_names", "", q.kind, 0, q.msg)
                            EXCEPT !.items = q.v, !.status = reply.status,
                                   !.body = reply.body]
              /\ api' = q.api
    /\ NoGit
    /\ UNCHANGED <<config, req_config, remote>>

\* git::guess_default_remote_name
GuessDefaultRemoteName(remotes) ==
    IF Cardinality(remotes) = 0 THEN None
    ELSE IF Cardinality(remotes) = 1 THEN Some(CHOOSE r \in remotes : TRUE)
    ELSE IF "origin" \in remotes THEN Some("origin") ELSE None

\* Ends of a CLI invocation that ran no checkout_branch: `urls` are the API
\* requests it had issued.  The Remote instance of an invocation ends with
\* its process.
Finish(cfg, rq, urls, outcome) ==
    /\ config' = cfg
    /\ req_config' = rq
    /\ ret' = outcome
    /\ remote' = NoRemote
    /\ api' = urls
    /\ cmds' = <<>>
    /\ exits' = <<>>
    /\ call' = NoCheckout
    /\ UNCHANGED <<git_req_refs, heads, remote_refs, HEAD, recorded, git_remotes>>

\* main.rs:130-150 list_open_requests with the instance `rem` built:
\* get_req_names().unwrap(), then the requests are printed.
list_open_requests_names(cfg, rq, rem, urls, remote_name) ==
    \E reply \in RequestListReplies(rem.kind) :
       LET listed(q) ==
               IF q.kind = "Ok"
               THEN Finish(cfg, rq, urls \o q.api,
                           [Outcome("list_open_requests", remote_name, "Ok", 0, "")
                               EXCEPT !.items = q.v])
               ELSE Finish(cfg, rq, urls \o q.api,
                           Outcome("list_open_requests", remote_name, "Panic", 0,
                                   IF q.kind = "Err" THEN "unwrap on Err" ELSE q.msg))
       IN  listed(IF rem.kind = "GitHub"
                  THEN RetrieveGithubProjectPullRequests(rem, reply)
                  ELSE RetrieveGitlabProjectMergeRequests(rem, reply))

\* main.rs:49-75 checkout_mr with the GitHub instance built: the branch
\* names need no request.
checkout_mr_github_branch(req, cfg, rq, urls, remote_name, mr_id) ==
    /\ config' = cfg
    /\ req_config' = rq
    /\ remote' = NoRemote
    /\ api' = urls
    /\ checkout_branch_core(MainOutcome(req, remote_name, "Ok", mr_id, ""),
                            cfg, remote_name,
                            GitHubRemoteReqBranch(mr_id),
                            GitHubLocalReqBranch(mr_id), TRUE)
    /\ UNCHANGED <<git_req_refs, recorded, git_remotes>>

\* main.rs:49-75 checkout_mr with the GitLab instance `rem` built: the two
\* branch-name queries (br1, br2 are the replies), then checkout_branch.
checkout_mr_gitlab_branch(req, cfg, rq, rem, urls, remote_name, mr_id) ==
    \E br1 \in MergeRequestReplies(mr_id) :
       LET q1 == QueryGitlabBranchName(rem, mr_id, br1)
       IN  IF q1.kind = "Err"
           THEN Finish(cfg, rq, urls \o q1.api,
                       MainOutcome(req, remote_name, "Exit", mr_id,
                                   "There was a problem ascertaining the branch name"))
           ELSE IF q1.kind = "Panic"
           THEN Finish(cfg, rq, urls \o q1.api,
                       MainOutcome(req, remote_name, "Panic", mr_id, q1.msg))
           ELSE \E br2 \in MergeRequestReplies(mr_id) :
              LET q2 == QueryGitlabBranchName(rem, mr_id, br2)
              IN  IF q2.kind = "Err"
                  THEN Finish(cfg, rq, urls \o q1.api \o q2.api,
                              MainOutcome(req, remote_name, "Panic", mr_id, "unwrap on Err"))
                  ELSE IF q2.kind = "Panic"
                  THEN Finish(cfg, rq, urls \o q1.api \o q2.api,
                              MainOutcome(req, remote_name, "Panic", mr_id, q2.msg))
                  ELSE /\ config' = cfg
                       /\ req_config' = rq
                       /\ remote' = NoRemote
                       /\ api' = urls \o q1.api \o q2.api
                       /\ checkout_branch_core(
                              MainOutcome(req, remote_name, "Ok", mr_id, ""),
                              cfg, remote_name, q1.v, q2.v, FALSE)
                       /\ UNCHANGED <<git_req_refs, recorded, git_remotes>>

\* What checkout_mr (main.rs:52-75) and list_open_requests (main.rs:133-150)
\* do with the instance get_remote_hard(remote_name, true) returned.
WithRemote(listing, req, cfg, rq, rem, urls, remote_name, mr_id) ==
    IF listing THEN list_open_requests_names(cfg, rq, rem, urls, remote_name)
    ELSE IF rem.kind = "GitHub"
    THEN checkout_mr_github_branch(req, cfg, rq, urls, remote_name, mr_id)
    ELSE checkout_mr_gitlab_branch(req, cfg, rq, rem, urls, remote_name, mr_id)

\* The outcome of an invocation that get_remote_hard or a panic ended.
Ended(listing, req, remote_name, kind, mr_id, msg) ==
    IF listing THEN Outcome("list_open_requests", remote_name, kind, 0, msg)
    ELSE MainOutcome(req, remote_name, kind, mr_id, msg)

\* main.rs:37-46 get_remote_hard(remote_name, true) for a GitHub remote:
\* get_remote asks for the API key.
get_remote_hard_github(listing, req, cfg, remote_name, mr_id) ==
    LET named(origin, name) ==
            IF ~name.some
            THEN Finish(cfg, req_config, <<>>,
                        Ended(listing, req, remote_name, "Exit", mr_id,
                              "There was a problem finding the remote Git repo"))
            ELSE \E line \in KeyLines :
                    WithRemote(listing, req, cfg,
                               ApiKeyStore(req_config, GitHubDomain, line),
                               [GitHubRemote(origin, Str(name.v))
                                  EXCEPT !.api_key = ApiKey(req_config, GitHubDomain, line)],
                               <<>>, remote_name, mr_id)
        of(origin) == named(origin, GithubProjectNameOf[origin])
    IN  of(git_remotes[remote_name])

\* main.rs:37-46 get_remote_hard(remote_name, true) for a GitLab remote:
\* get_remote asks for the API key, loads or resolves the project id and
\* stores it.
get_remote_hard_gitlab(listing, req, cfg, remote_name, mr_id) ==
    LET problem == Ended(listing, req, remote_name, "Exit", mr_id,
                         "There was a problem finding the remote Git repo")
        resolved(built, rq, cfg2, q) ==
            IF q.kind = "Err" THEN Finish(cfg2, rq, q.api, problem)
            ELSE IF q.kind = "Panic"
            THEN Finish(cfg2, rq, q.api,
                        Ended(listing, req, remote_name, "Panic", mr_id, q.msg))
            ELSE WithRemote(listing, req,
                     SetStr(MigrateLegacy(cfg2, "projectid", MigrationRemote),
                            RemoteKey(remote_name, "projectid"), q.v),
                     rq, [built EXCEPT !.id = q.v], q.api, remote_name, mr_id)
        loaded(built, rq, cfg2, id) ==
            IF id.some
            THEN WithRemote(listing, req, cfg2, rq, [built EXCEPT !.id = id.v],
                            <<>>, remote_name, mr_id)
            ELSE \E q \in GetProjectIdOutcomes(built) : resolved(built, rq, cfg2, q)
        named(origin, domain, namespace, name) ==
            IF ~name.some THEN Finish(cfg, req_config, <<>>, problem)
            ELSE IF ~namespace.some
            THEN Finish(cfg, req_config, <<>>,
                        Ended(listing, req, remote_name, "Panic", mr_id, "unwrap on None"))
            ELSE \E line \in KeyLines :
                    loaded([GitLabRemote(origin, Str(domain), name.v, Str(namespace.v))
                              EXCEPT !.api_key = ApiKey(req_config, domain, line)],
                           ApiKeyStore(req_config, domain, line),
                           GetConfigStore(cfg, "projectid", remote_name),
                           GetConfigValue(cfg, "projectid", remote_name))
        of(origin) == named(origin, DomainOf[origin].v, GitlabProjectNamespaceOf[origin],
                            GitlabProjectNameOf[origin])
    IN  of(git_remotes[remote_name])

\* main.rs:31-46 get_remote_hard(remote_name, true) and what follows it.
get_remote_hard(listing, req, cfg, remote_name, mr_id) ==
    LET matched(domain) ==
            IF ~domain.ok
            THEN Finish(cfg, req_config, <<>>,
                        Ended(listing, req, remote_name, "Exit", mr_id,
                              "There was a problem finding the remote Git repo"))
            ELSE IF IsGitHubDomain(domain.v)
            THEN get_remote_hard_github(listing, req, cfg, remote_name, mr_id)
            ELSE get_remote_hard_gitlab(listing, req, cfg, remote_name, mr_id)
    IN  IF remote_name \notin DOMAIN git_remotes
        THEN Finish(cfg, req_config, <<>>,
                    Ended(listing, req, remote_name, "Panic", mr_id,
                          "Couldn't find the remote"))
        ELSE matched(DomainOf[git_remotes[remote_name]])

\* main.rs:49-75 checkout_mr
checkout_mr(req, cfg, remote_name, mr_id) ==
    get_remote_hard(FALSE, req, cfg, remote_name, mr_id)

\* main.rs:167-194 get_remote_name, before the REMOTE_NAME argument is
\* looked at: the default remote and the config after the call.  A stored
\* defaultremote is returned as it is.  Otherwise the name is guessed and
\* stored; when the guess fails the user is asked, the call panics unless
\* the trimmed line is a remote, and the line is stored and returned as it
\* was typed.
get_remote_name(cfg) ==
    LET stored == GetProjectConfig(cfg, "defaultremote")
        guessed == GuessDefaultRemoteName(DOMAIN git_remotes)
        new(name) == [kind |-> "Ok", name |-> name, msg |-> "",
                      cfg |-> SetStr(cfg, ProjectKey("defaultremote"), name)]
        asked(line) == IF Str(Trim(line)) \in DOMAIN git_remotes THEN new(Str(line))
                       ELSE [kind |-> "Panic", name |-> "", cfg |-> cfg,
                             msg |-> "Invalid remote name provided"]
    IN  IF stored.some
        THEN {[kind |-> "Ok", name |-> stored.v, msg |-> "", cfg |-> cfg]}
        ELSE IF guessed.some THEN {new(guessed.v)}
        ELSE {asked(line) : line \in RemoteNameLines}

\* main.rs:231-241: `git req [-u REMOTE] REQUEST_ID`
main_request(request_id, use_remote) ==
    LET parsed == ParseI64(request_id)
        named(d) ==
            IF d.kind = "Panic"
            THEN Finish(d.cfg, req_config, <<>>,
                        MainOutcome(Str(request_id), "", "Panic", parsed.v, d.msg))
            ELSE checkout_mr(Str(request_id), d.cfg,
                             IF use_remote.some THEN use_remote.v ELSE d.name, parsed.v)
    IN  /\ IF ~parsed.ok
           THEN Finish(config, req_config, <<>>,
                       MainOutcome(Str(request_id), "", "Exit", 0,
                                   "Invalid request ID provided"))
           ELSE \E d \in get_remote_name(config) : named(d)
        /\ Cardinality(heads') <= MaxMainBranches + 1

\* main.rs:226-227, 124-128: `git req --set-default-remote REMOTE`
set_default_remote(remote_name) ==
    /\ config' = SetStr(config, ProjectKey("defaultremote"), remote_name)
    /\ ret' = Outcome("set_default_remote", remote_name, "Ok", 0, "")
    /\ cmds' = <<>>
    /\ exits' = <<>>
    /\ api' = <<>>
    /\ remote' = NoRemote
    /\ call' = NoCheckout
    /\ UNCHANGED <<req_config, git_req_refs, heads, remote_refs, HEAD, recorded, git_remotes>>

\* An invocation that touches the configuration only: no subprocess, no
\* request, no checkout.
ConfigCommand(cfg, rq, outcome) == Finish(cfg, rq, <<>>, outcome)

\* main.rs:218-219, 110-114: `git req [-u REMOTE] --clear-project-id`;
\* delete_config migrates, then cfg.remove(..).unwrap() panics on a key that
\* is not set, and on one libgit2 refuses.
clear_project_id(use_remote) ==
    LET cleared(remote_name, migrated, key) ==
            IF CanRemove(migrated, key)
            THEN ConfigCommand(Remove(migrated, key), req_config,
                               Outcome("clear_project_id", remote_name, "Ok", 0, ""))
            ELSE ConfigCommand(migrated, req_config,
                               Outcome("clear_project_id", remote_name, "Panic", 0,
                                       "unwrap on Err"))
        named(d, remote_name) ==
            IF d.kind = "Panic"
            THEN ConfigCommand(d.cfg, req_config,
                               Outcome("clear_project_id", "", "Panic", 0, d.msg))
            ELSE cleared(remote_name, MigrateLegacy(d.cfg, "projectid", MigrationRemote),
                         RemoteKey(remote_name, "projectid"))
    IN  \E d \in get_remote_name(config) :
           named(d, IF use_remote.some THEN use_remote.v ELSE d.name)

\* main.rs:37-46 get_remote_hard(remote_name, false): get_remote asks for no
\* API key and looks no project id up; for a GitLab remote it still reads
\* the stored project id, which migrates a legacy key.  The domain of the
\* instance and the config after the call.
GetRemoteHardSkipped(cfg, remote_name) ==
    LET ended(kind, msg) == [kind |-> kind, msg |-> msg, domain |-> <<>>, cfg |-> cfg]
        problem == ended("Exit", "There was a problem finding the remote Git repo")
        built(origin, domain) ==
            IF ~domain.ok THEN problem
            ELSE IF IsGitHubDomain(domain.v)
            THEN IF GithubProjectNameOf[origin].some
                 THEN [kind |-> "Ok", msg |-> "", domain |-> domain.v, cfg |-> cfg]
                 ELSE problem
            ELSE IF ~GitlabProjectNameOf[origin].some THEN problem
            ELSE IF ~GitlabProjectNamespaceOf[origin].some
            THEN ended("Panic", "unwrap on None")
            ELSE [kind |-> "Ok", msg |-> "", domain |-> domain.v,
                  cfg |-> GetConfigStore(cfg, "projectid", remote_name)]
        of(origin) == built(origin, DomainOf[origin])
    IN  IF remote_name \notin DOMAIN git_remotes
        THEN ended("Panic", "Couldn't find the remote")
        ELSE of(git_remotes[remote_name])

\* main.rs:216-217, 117-121: `git req [-u REMOTE] --set-project-id ID`;
\* set_config migrates, then cfg.set_str(..).unwrap() panics on a key
\* libgit2 refuses.
set_project_id(use_remote, new_id) ==
    LET stored(remote_name, migrated) ==
            IF remote_name \in NewlineNames
            THEN ConfigCommand(migrated, req_config,
                               Outcome("set_project_id", remote_name, "Panic", 0,
                                       "unwrap on Err"))
            ELSE ConfigCommand(SetStr(migrated, RemoteKey(remote_name, "projectid"), new_id),
                               req_config,
                               Outcome("set_project_id", remote_name, "Ok", 0, new_id))
        named(d, remote_name) ==
            IF d.kind = "Panic"
            THEN ConfigCommand(d.cfg, req_config,
                               Outcome("set_project_id", "", "Panic", 0, d.msg))
            ELSE stored(remote_name, MigrateLegacy(d.cfg, "projectid", MigrationRemote))
    IN  \E d \in get_remote_name(config) :
           named(d, IF use_remote.some THEN use_remote.v ELSE d.name)

\* main.rs:222-223, 78-98: `git req [-u REMOTE] --clear-domain-key`; a key
\* that is not there (NotFound) is reported as deleted too.
clear_domain_key(use_remote) ==
    LET cleared(remote_name, r) ==
            IF r.kind # "Ok"
            THEN ConfigCommand(r.cfg, req_config,
                               Outcome("clear_domain_key", remote_name, r.kind, 0, r.msg))
            ELSE ConfigCommand(r.cfg,
                               IF CanRemove(req_config, ReqKey(r.domain, "apikey"))
                               THEN Remove(req_config, ReqKey(r.domain, "apikey"))
                               ELSE req_config,
                               Outcome("clear_domain_key", remote_name, "Ok", 0, ""))
        named(d, remote_name) ==
            IF d.kind = "Panic"
            THEN ConfigCommand(d.cfg, req_config,
                               Outcome("clear_domain_key", "", "Panic", 0, d.msg))
            ELSE cleared(remote_name, GetRemoteHardSkipped(d.cfg, remote_name))
    IN  \E d \in get_remote_name(config) :
           named(d, IF use_remote.some THEN use_remote.v ELSE d.name)

\* main.rs:224-225, 101-107: `git req [-u REMOTE] --set-domain-key KEY`; the
\* key is stored as typed.
set_domain_key(use_remote, new_key) ==
    LET stored(remote_name, r) ==
            IF r.kind # "Ok"
            THEN ConfigCommand(r.cfg, req_config,
                               Outcome("set_domain_key", remote_name, r.kind, 0, r.msg))
            ELSE ConfigCommand(r.cfg,
                               SetStr(req_config, ReqKey(r.domain, "apikey"), new_key),
                               Outcome("set_domain_key", remote_name, "Ok", 0, new_key))
        named(d, remote_name) ==
            IF d.kind = "Panic"
            THEN ConfigCommand(d.cfg, req_config,
                               Outcome("set_domain_key", "", "Panic", 0, d.msg))
            ELSE stored(remote_name, GetRemoteHardSkipped(d.cfg, remote_name))
    IN  \E d \in get_remote_name(config) :
           named(d, IF use_remote.some THEN use_remote.v ELSE d.name)

\* main.rs:220-221, 130-150: `git req [-u REMOTE] --list`
list_open_requests(use_remote) ==
    \E d \in get_remote_name(config) :
       IF d.kind = "Panic"
       THEN Finish(d.cfg, req_config, <<>>,
                   Outcome("list_open_requests", "", "Panic", 0, d.msg))
       ELSE get_remote_hard(TRUE, "", d.cfg,
                            IF use_remote.some THEN use_remote.v ELSE d.name, 0)

-----------------------------------------------------------------------------
(* Specifications *)

\* A repository the program was not yet run in.
Fresh ==
    /\ config = [k \in ConfigKeys |-> None]
    /\ req_config = [k \in ReqConfigKeys |-> None]
    /\ git_req_refs = [r \in {CurrentRef, PreviousRef} |-> NoOid]
    /\ heads = {"master"}
    /\ remote_refs = {}
    /\ HEAD = OnBranch("master")
    /\ call = NoCheckout
    /\ ret = NoCall
    /\ cmds = <<>>
    /\ exits = <<>>
    /\ api = <<>>
    /\ remote = NoRemote
    /\ recorded = <<>>

\* The repository with an origin.
Init == Fresh /\ git_remotes = RepoRemotes

\* Either repository: with an origin, and with several remotes but none
\* named origin.
InitRepositories == Fresh /\ git_remotes \in Repositories

\* The history tracker on its own.
NextHistory ==
    \/ \E n \in ReqIds, prev_ok \in BOOLEAN, cur_ok \in BOOLEAN :
          push_current_ref(n, prev_ok, cur_ok)
    \/ get_previous_mr_id

SpecHistory == Init /\ [][NextHistory]_vars

\* The configuration store on its own.
NextConfig ==
    \/ \E r \in RemoteNames : migrate_legacy("projectid", r)
    \/ \E r \in RemoteNames : get_config("projectid", r)
    \/ \E r \in RemoteNames, v \in ProjectIds : set_config("projectid", r, v)
    \/ \E r \in RemoteNames : delete_config("projectid", r)
    \/ get_project_config("defaultremote")
    \/ \E r \in RemoteNames : set_project_config("defaultremote", r)
    \/ \E v \in ProjectIds : legacy_set_config("projectid", v)

SpecConfig == Init /\ [][NextConfig]_vars

\* The checkout engine on its own, under every defaultremote setting.
NextCheckout ==
    \/ \E r \in RemoteNames, b \in BranchArgs : checkout_branch(r, b)
    \/ \E r \in RemoteNames : set_project_config("defaultremote", r)

SpecCheckout == Init /\ [][NextCheckout]_vars

\* Request branches as a GitLab project may name them: a source branch may
\* itself begin with req/<remote>/.
SourceBranchArgs ==
    BranchArgs \cup
        {[remote_branch |-> "req/upstream/feature",
          local_branch |-> "req/upstream/feature", virtual |-> FALSE]}

\* The checkout engine with those branches.
NextBranchNames ==
    \/ \E r \in RemoteNames, b \in SourceBranchArgs : checkout_branch(r, b)
    \/ \E r \in RemoteNames : set_project_config("defaultremote", r)

SpecBranchNames == Init /\ [][NextBranchNames]_vars

\* The providers on their own: instances are built from origins and asked.
NextRemote ==
    \/ \E r \in RemoteNames, o \in Origins, skip \in BOOLEAN : get_remote(r, o, skip)
    \/ get_project_id
    \/ \E n \in RemoteReqIds : get_remote_req_branch(n)
    \/ \E n \in RemoteReqIds : get_local_req_branch(n)
    \/ get_req_names

SpecRemote == Init /\ [][NextRemote]_vars

\* Names `--set-default-remote` may be given: clap takes any string.
NewDefaultRemoteArgs == RepoRemoteNames \cup {UnknownRemote}

\* The command line with any name as the new default remote.
NextDefaultRemote ==
    \/ \E a \in RequestArgs, u \in UseRemoteArgs : main_request(a, u)
    \/ \E r \in NewDefaultRemoteArgs : set_default_remote(r)

SpecDefaultRemote == InitRepositories /\ [][NextDefaultRemote]_vars

\* The command-line tool: its invocations, and the history tracker's
\* operations.
Next ==
    \/ \E a \in RequestArgs, u \in UseRemoteArgs : main_request(a, u)
    \/ \E r \in RemoteNames : set_default_remote(r)
    \/ \E u \in UseRemoteArgs : clear_project_id(u)
    \/ \E n \in MainIds : push_current_ref(n, TRUE, TRUE)
    \/ \E u \in SetProjectIdRemoteArgs, id \in NewProjectIdArgs : set_project_id(u, id)
    \/ \E u \in UseRemoteArgs : clear_domain_key(u)
    \/ \E u \in UseRemoteArgs, key \in NewDomainKeyArgs : set_domain_key(u, key)
    \/ \E u \in UseRemoteArgs : list_open_requests(u)

Spec == InitRepositories /\ [][Next]_vars

-----------------------------------------------------------------------------
(* Properties *)

Current == git_req_refs[CurrentRef]
Previous == git_req_refs[PreviousRef]

AllOk(log) == \A k \in 1..Len(log) : log[k].kind = "Ok"

LegacyValue(cfg) == GetString(cfg, ProjectKey("projectid"))
ScopedValue(cfg, r) == GetString(cfg, RemoteKey(r, "projectid"))
DefaultRemote == GetProjectConfig(config, "defaultremote")

\* The last call ran checkout_branch (directly or from the command line).
CheckoutResults ==
    {"BranchChanged", "BranchUnchanged", "Could not fetch remote branch",
     "Could not check out local branch"}
CheckoutRan(r) == r.op \in {"main", "checkout_branch"} /\ r.str \in CheckoutResults

ReqForm(c) == "req/" \o c.remote \o "/" \o c.local_branch
PlainForm(c) == c.remote \o "/" \o c.local_branch

\* C1: after n >= 2 successful push_current_ref calls r1..rn, the current
\* marker holds rn and get_previous_mr_id returns r(n-1).
C1_HistoryRing ==
    (Len(recorded) >= 2 /\ AllOk(recorded)) =>
        /\ Current # NoOid
        /\ FromLeBytes(Current) = recorded[Len(recorded)].id
        /\ PreviousMrId(git_req_refs)
              = Outcome("get_previous_mr_id", "", "Ok", recorded[Len(recorded) - 1].id, "")
        /\ (ret.op = "get_previous_mr_id" =>
               ret.kind = "Ok" /\ ret.num = recorded[Len(recorded) - 1].id)

C1_Witness ==
    /\ Len(recorded) = 3 /\ AllOk(recorded)
    /\ <<recorded[1].id, recorded[2].id, recorded[3].id>> = <<5, 7, 9>>
    /\ ret.op = "get_previous_mr_id" /\ ret.num = 7
    /\ FromLeBytes(Current) = 9

\* C5: get_previous_mr_id returns an error (no id, no panic) as long as the
\* previous marker was never written: with no record call, and after
\* exactly one record call.
C5_NoPreviousIsError ==
    Len(recorded) <= 1 =>
        /\ PreviousMrId(git_req_refs).kind = "Err"
        /\ (ret.op = "get_previous_mr_id" => ret.kind = "Err")

C5_Witness ==
    /\ Len(recorded) = 1 /\ recorded[1].kind = "Ok"
    /\ Current # NoOid
    /\ ret.op = "get_previous_mr_id" /\ ret.kind = "Err"

\* C6: migrate_legacy is idempotent: after a run the unscoped key is absent
\* and the remote-scoped key holds the legacy value, and a second run on the
\* resulting config changes nothing.
C6_MigrationIdempotent ==
    [][ret'.op = "migrate_legacy" =>
          /\ ~LegacyValue(config').some
          /\ (LegacyValue(config).some =>
                 ScopedValue(config', ret'.arg) = LegacyValue(config))
          /\ MigrateLegacy(config', "projectid", ret'.arg) = config'
          /\ ret'.kind = "Ok"]_vars

C6_Witness ==
    /\ ret.op = "migrate_legacy" /\ ret.num = 1 /\ ret.arg = "upstream"
    /\ ScopedValue(config, "upstream") = Some("202")
    /\ ~LegacyValue(config).some

\* A repository that holds only the legacy unscoped key.
OnlyLegacy(cfg) ==
    LegacyValue(cfg).some /\ \A r \in RemoteNames : ~ScopedValue(cfg, r).some

\* C7 (as claimed): a first get_config(field, r) on a repository holding only
\* the legacy key migrates the value to the scoped key of the remote r being
\* read, returns it, and removes the old key.  get_config migrates to the
\* remote named origin whichever remote is read (git.rs:54), so for any
\* other remote the read returns nothing and the value lands under origin.
C7_Original ==
    [][(ret'.op = "get_config" /\ OnlyLegacy(config)) =>
          /\ ret'.kind = "Some" /\ ret'.str = LegacyValue(config).v
          /\ ScopedValue(config', ret'.arg) = LegacyValue(config)
          /\ ~LegacyValue(config').some]_vars

\* The local name is the branch name with a remote prefix of either form.
Prefixed(c) == c.local_name \in {ReqForm(c), PlainForm(c)}

\* C9 (as claimed): when the name is prefixed with the remote name, which of
\* the forms req/<remote>/<name> and <remote>/<name> is used depends on the
\* virtual-ref flag: two calls with the same flag use the same form.
C9_Original ==
    [][(ret'.op = "checkout_branch" /\ Prefixed(call) /\ Prefixed(call')
          /\ call.virtual = call'.virtual) =>
          (call.local_name = ReqForm(call)) = (call'.local_name = ReqForm(call'))]_vars

\* C9 (amended): the bare name if defaultremote is configured and equals the
\* active remote; req/<remote>/<name> if it is configured and differs;
\* <remote>/<name> if none is configured; the virtual-ref flag plays no part.
C9_LocalName ==
    ret.op = "checkout_branch" =>
        call.local_name =
            IF DefaultRemote.some
            THEN IF DefaultRemote.v = call.remote THEN call.local_branch
                 ELSE ReqForm(call)
            ELSE PlainForm(call)

C9_Witness ==
    /\ ret.op = "checkout_branch" /\ call.virtual
    /\ DefaultRemote = Some("origin") /\ call.remote = "upstream"
    /\ call.local_name = "req/upstream/pr/5"
    /\ HEAD = OnBranch("req/upstream/pr/5")

\* C10 (as claimed): with no defaultremote configured checkout_branch computes
\* the local name of the non-default-remote case, req/<remote>/<name>.
C10_Original ==
    (ret.op = "checkout_branch" /\ ~DefaultRemote.some) =>
        call.local_name = ReqForm(call)

\* C10 (amended): with no defaultremote configured the local name is
\* <remote>/<name>, without the req/ of the non-default-remote case; from
\* that name on, both cases take the same steps: nothing if the name resolves
\* and is the current branch, a plain checkout if it resolves otherwise, and
\* a fetch first if it does not resolve.
C10_SameSteps ==
    [][(ret'.op = "checkout_branch"
          /\ (~DefaultRemote.some \/ DefaultRemote.v # call'.remote)) =>
          LET name == call'.local_name
              fetch == FetchCmd(call'.remote, call'.remote_branch, name, call'.virtual)
          IN  /\ name = IF DefaultRemote.some THEN ReqForm(call') ELSE PlainForm(call')
              /\ ReqForm(call') # PlainForm(call')
              /\ IF Resolves(heads, remote_refs, name)
                 THEN IF HEAD = OnBranch(name)
                      THEN cmds' = <<>>
                      ELSE cmds' = <<PlainCheckoutCmd(name)>>
                 ELSE Len(cmds') >= 1 /\ cmds'[1] = fetch]_vars

C10_Witness ==
    /\ ret.op = "checkout_branch" /\ ~DefaultRemote.some
    /\ call.remote = "origin" /\ ~call.virtual
    /\ call.local_name = "origin/feature"
    /\ Len(cmds) = 2 /\ ret.str = "BranchChanged"

\* C2: a checkout whose computed local name resolves and is the current
\* branch returns BranchUnchanged, runs no git subprocess and leaves the
\* history markers (and the refs and HEAD) as they were.
C2_UnchangedNoGit ==
    [][(CheckoutRan(ret') /\ Resolves(heads, remote_refs, call'.local_name)
          /\ HEAD = OnBranch(call'.local_name)) =>
          /\ ret'.kind = "Ok" /\ ret'.str = "BranchUnchanged"
          /\ cmds' = <<>>
          /\ UNCHANGED <<git_req_refs, heads, remote_refs, HEAD>>]_vars

C2_Witness ==
    /\ ret.op = "main" /\ ret.str = "BranchUnchanged" /\ cmds = <<>>
    /\ HEAD = OnBranch(call.local_name)
    /\ Current # NoOid /\ Previous # NoOid

\* C3 (as claimed): a request checkout that ends in BranchChanged rotates
\* the history for its request id; one that ends in BranchUnchanged or in an
\* error leaves the history alone.
C3_ChangedRotates ==
    [][(ret'.op = "main") =>
          IF ret'.str = "BranchChanged"
          THEN /\ git_req_refs'[CurrentRef] = Blob(ToLeBytes(ret'.num))
               /\ git_req_refs'[PreviousRef] =
                     IF Current # NoOid THEN Current ELSE Previous
          ELSE UNCHANGED git_req_refs]_vars

\* C4 (as claimed): given the request argument "-" while a previous marker
\* exists, the command line checks out the request the marker names.
C4_DashIsPrevious ==
    [][(ret'.op = "main" /\ ret'.req = "-"
          /\ PreviousMrId(git_req_refs).kind = "Ok") =>
          /\ ret'.num = PreviousMrId(git_req_refs).num
          /\ ret'.str # "Invalid request ID provided"]_vars

\* C8 (as claimed): no operation panics; every failure is returned (or, in
\* the command line, reported) as an error.
C8_NoPanic == ret.kind # "Panic"


\* A step that is a call of checkout_branch whose computed local name does
\* not resolve (the fetch path), resp. names an existing local branch that is
\* not checked out.
FetchPathStep ==
    /\ ret'.op = "checkout_branch"
    /\ ~(call'.local_name \in heads \/ call'.local_name \in remote_refs)

ExistingBranchStep ==
    /\ ret'.op = "checkout_branch"
    /\ call'.local_name \in heads
    /\ ~(HEAD.branch /\ HEAD.name = call'.local_name)

\* C11: in the fetch path the first subprocess is the fetch and a checkout
\* follows it only after it; for a virtual-ref remote the fetch binds
\* <remote_branch>:<local> and the checkout is a plain checkout of <local>,
\* for a real-branch remote the fetch names the plain remote branch and the
\* checkout is `checkout -b <local> <remote>/<remote_branch>`.
C11_FetchThenCheckout ==
    [][FetchPathStep =>
          LET name == call'.local_name
              branch == call'.remote_branch
          IN  /\ Len(cmds') \in {1, 2}
              /\ cmds'[1] = <<"git", "fetch", call'.remote,
                              IF call'.virtual THEN branch \o ":" \o name ELSE branch>>
              /\ exits'[1] => Len(cmds') = 2
              /\ Len(cmds') = 2 =>
                    cmds'[2] = IF call'.virtual
                               THEN <<"git", "checkout", name>>
                               ELSE <<"git", "checkout", "-b", name,
                                      call'.remote \o "/" \o branch>>]_vars

C11_Witness ==
    /\ ret.op = "checkout_branch"
    /\ call.virtual
    /\ Len(cmds) = 2
    /\ cmds[1] = <<"git", "fetch", call.remote, call.remote_branch \o ":" \o call.local_name>>
    /\ cmds[2] = <<"git", "checkout", call.local_name>>

\* C12: in the fetch path a failed fetch gives the fetch-failure error and
\* no checkout subprocess runs; a failed checkout after a successful fetch
\* gives the checkout-failure error, which differs from the fetch failure;
\* BranchChanged is returned only when both succeeded.
C12_FetchPathErrors ==
    [][FetchPathStep =>
          /\ ~exits'[1] =>
                /\ ret'.kind = "Err"
                /\ ret'.str = "Could not fetch remote branch"
                /\ Len(cmds') = 1
                /\ cmds'[1][2] = "fetch"
          /\ (exits'[1] /\ ~exits'[2]) =>
                /\ ret'.kind = "Err"
                /\ ret'.str = "Could not check out local branch"
                /\ ret'.str # "Could not fetch remote branch"
          /\ ret'.str = "BranchChanged" => exits' = <<TRUE, TRUE>>]_vars

C12_Witness ==
    /\ ret.op = "checkout_branch"
    /\ exits = <<FALSE>>
    /\ cmds[1][2] = "fetch"
    /\ ret.kind = "Err"
    /\ ret.str = "Could not fetch remote branch"

\* C13: when the computed local name is an existing local branch that is
\* not the one checked out, checkout_branch runs exactly one subprocess, the
\* plain checkout of that branch, and no fetch; it returns BranchChanged if
\* the checkout succeeds and an error if it fails.
C13_ExistingBranch ==
    [][ExistingBranchStep =>
          /\ cmds' = << <<"git", "checkout", call'.local_name>> >>
          /\ Len(exits') = 1
          /\ exits'[1] => /\ ret'.kind = "Ok"
                          /\ ret'.str = "BranchChanged"
                          /\ HEAD' = [branch |-> TRUE, name |-> call'.local_name]
          /\ ~exits'[1] => /\ ret'.kind = "Err"
                           /\ HEAD' = HEAD]_vars

C13_Witness ==
    /\ ret.op = "checkout_branch"
    /\ cmds = << <<"git", "checkout", call.local_name>> >>
    /\ exits = <<TRUE>>
    /\ call.local_name \in heads
    /\ ret.str = "BranchChanged"
    /\ HEAD = [branch |-> TRUE, name |-> call.local_name]

\* A GitLab instance has just looked its project id up: get_project_id ran
\* on an instance that held none.  ret.body holds the replies to the direct
\* lookup, the namespace lookup and the project listing.
ProjectIdLookedUp ==
    /\ ret.op = "get_project_id"
    /\ remote.kind = "GitLab"
    /\ api # <<>>

DirectFound ==
    /\ ret.body[1].status < 400
    /\ ret.body[1].body.json
    /\ ret.body[1].body.doc = "project"

\* The search got as far as a decoded project listing.
Listed ==
    /\ ret.body[1].status >= 400
    /\ ret.body[2].status < 400
    /\ ret.body[2].body.json
    /\ ret.body[2].body.doc = "namespace"
    /\ ret.body[2].body.kind \in {"user", "group"}
    /\ ret.body[3].status < 400
    /\ ret.body[3].body.json
    /\ ret.body[3].body.doc = "list"

ExactMatches ==
    {k \in 1..Len(ret.body[3].body.items) : ret.body[3].body.items[k].name = remote.name}

\* Every request of the search was answered as the search needs, so that it
\* came to filter a listing and found no project of the name.
NoExactMatch == Listed /\ ExactMatches = {}

\* C14 (as claimed): GitLab project-id resolution.  A successful direct
\* lookup gives its id and no other request is made; on an error reply the
\* search is made, and a listing with a project whose name equals the
\* project name gives that project's id; a listing without such a project
\* makes the resolution fail with an error of its own kind, one that no
\* other failure of the resolution is reported as.
C14_ProjectIdResolution ==
    ProjectIdLookedUp =>
        /\ DirectFound =>
              /\ ret.kind = "Ok"
              /\ ret.str = ToString(ret.body[1].body.id)
              /\ remote.id = ret.str
              /\ Len(api) = 1
        /\ ret.body[1].status >= 400 =>
              /\ Len(api) >= 2
              /\ api[2] = remote.api_root \o "/namespaces/" \o remote.namespace
        /\ (Listed /\ ExactMatches # {}) =>
              /\ ret.kind = "Ok"
              /\ \E k \in ExactMatches : ret.str = ToString(ret.body[3].body.items[k].id)
              /\ remote.id = ret.str
              /\ Len(api) = 3
        /\ NoExactMatch =>
              /\ ret.kind = "Err"
              /\ ret.str = "Unable to get the project ID from the GitLab API."
              /\ remote.id = ""
        /\ (ret.kind = "Err" /\ ~NoExactMatch) =>
              ret.str # "Unable to get the project ID from the GitLab API."

\* The project id the config holds for remote r.
StoredProjectId(cfg, r) == cfg["req." \o r \o ".projectid"]

\* C15: a get_remote that is given a GitLab origin, is not told to skip and
\* finds no project id stored for remote r resolves it through the API,
\* keeps it on the instance and stores it as req.<r>.projectid; a get_remote
\* that finds one stored uses it and issues no request; when the resolution
\* fails or is skipped, no project id is stored.  get_project_id on an
\* instance that holds an id returns it and issues no request.
C15_ProjectIdCached ==
    [][/\ \A r \in RemoteNames :
            (ret'.op = "get_remote" /\ ret'.arg = r /\ config["req.projectid"] = None) =>
               LET stored == StoredProjectId(config, r)
               IN  /\ (ret'.kind = "Ok" /\ remote'.kind = "GitLab") =>
                         IF stored.some
                         THEN /\ api' = <<>>
                              /\ remote'.id = stored.v
                              /\ UNCHANGED config
                         ELSE IF ret'.skip
                         THEN /\ api' = <<>>
                              /\ remote'.id = ""
                              /\ UNCHANGED config
                         ELSE /\ api' # <<>>
                              /\ remote'.id # ""
                              /\ StoredProjectId(config', r) = Some(remote'.id)
                   /\ ret'.kind # "Ok" => UNCHANGED config
       /\ (ret'.op = "get_project_id" /\ remote.id # "") =>
             /\ ret'.kind = "Ok"
             /\ ret'.str = remote.id
             /\ api' = <<>>
             /\ UNCHANGED <<remote, config>>]_vars

C15_Witness ==
    /\ ret.op = "get_remote"
    /\ ret.kind = "Ok"
    /\ ~ret.skip
    /\ remote.kind = "GitLab"
    /\ remote.id = "101"
    /\ api # <<>>
    /\ StoredProjectId(config, ret.arg) = Some("101")

\* A GitLab instance has just been asked for the branch of a request;
\* ret.status and ret.body are the reply it got.
BranchAsked ==
    /\ ret.op \in {"get_remote_req_branch", "get_local_req_branch"}
    /\ remote.kind = "GitLab"

\* C16 (as claimed): a success reply with a merge-request body gives its
\* source branch; a 404 reply is returned as an error (RequestNotFound); any
\* other error reply, or a body that does not decode, is returned as an
\* error (ApiError).
C16_BranchNameErrors ==
    BranchAsked =>
        /\ (ret.status < 400 /\ ret.body.json /\ ret.body.doc = "mr") =>
              ret.kind = "Ok" /\ ret.str = ret.body.name
        /\ ret.status = 404 => ret.kind = "Err"
        /\ (ret.status >= 400 \/ ~ret.body.json \/ ret.body.doc # "mr") =>
              ret.kind = "Err"

\* An instance has just been asked for the open requests.
ListAsked == ret.op = "get_req_names" /\ remote.kind # "None"

\* C17 (as claimed): listing the open requests, a 404 reply is returned as
\* the project-not-found error, any other error reply or a malformed body as
\* a generic failure; a success comes from one request and gives one entry
\* per listed request, whose id is the number users see.
C17_ListErrors ==
    ListAsked =>
        /\ Len(api) = 1
        /\ ret.status = 404 => ret.kind = "Err" /\ ret.str = "remote project not found"
        /\ (ret.status >= 400 /\ ret.status # 404) =>
              ret.kind = "Err" /\ ret.str # "remote project not found"
        /\ (ret.status < 400 /\ (~ret.body.json \/ ret.body.doc # "list")) =>
              ret.kind = "Err" /\ ret.str # "remote project not found"
        /\ (ret.status < 400 /\ ret.body.json /\ ret.body.doc = "list") =>
              /\ ret.kind = "Ok"
              /\ Len(ret.items) = Len(ret.body.items)
              /\ \A k \in 1..Len(ret.items) :
                    ret.items[k].id = IF remote.kind = "GitHub"
                                      THEN ret.body.items[k].number
                                      ELSE ret.body.items[k].iid

GitHubDotCom == <<"g", "i", "t", "h", "u", "b", ".", "c", "o", "m">>

\* C18: the instance get_remote builds is the GitHub one exactly when the
\* domain of the origin is "github.com"; for any other domain it is the
\* GitLab one, with api_root https://<domain>/api/v4.
C18_Classification ==
    (ret.op = "get_remote" /\ ret.kind = "Ok") =>
        LET domain == GetDomain(ret.origin).v
        IN  /\ remote.kind \in {"GitHub", "GitLab"}
            /\ remote.origin = ret.origin
            /\ remote.kind = "GitHub" <=> domain = GitHubDotCom
            /\ remote.kind = "GitLab" =>
                  /\ remote.domain = Str(domain)
                  /\ remote.api_root = "https://" \o remote.domain \o "/api/v4"
            /\ ret.origin = OriginEnterpriseHttps =>
                  remote.api_root = "https://github.example.com/api/v4"

C18_Witness ==
    /\ ret.op = "get_remote"
    /\ ret.kind = "Ok"
    /\ ret.origin = OriginEnterpriseHttps
    /\ remote.kind = "GitLab"
    /\ remote.api_root = "https://github.example.com/api/v4"

\* The host named by each origin of the model ("" where there is none).
HostOf(origin) ==
    CASE origin \in {OriginGitHubHttps, OriginGitHubSsh, OriginGitProtocol,
                     OriginGitHubHttpsNoGit, OriginGitHubSshGit} -> "github.com"
      [] origin \in {OriginGitLabSsh, OriginNoNamespace} -> "gitlab.example.com"
      [] origin = OriginEnterpriseHttps -> "github.example.com"
      [] OTHER -> ""

\* C19 (as claimed): for a scheme://host/path or user@host:path origin the
\* domain get_domain gives is the host; an origin with no domain in it
\* gives the invalid-remote error.
C19_DomainIsHost ==
    ret.op = "get_remote" =>
        /\ HostOf(ret.origin) = "" => ret.kind = "Err" /\ ret.str = "invalid remote set"
        /\ (HostOf(ret.origin) # "" /\ ret.kind = "Ok") =>
              remote.domain = HostOf(ret.origin)

\* C20: a GitHub instance answers from what it holds: the remote branch of
\* request n is pull/<n>/head, the local branch pr/<n>, the project id the
\* project's full path; none of them fails or issues a request.
C20_GitHubNames ==
    remote.kind = "GitHub" =>
        /\ ret.op = "get_remote_req_branch" =>
              /\ ret.kind = "Ok"
              /\ ret.str = "pull/" \o ToString(ret.num) \o "/head"
              /\ ret.num = 42 => ret.str = "pull/42/head"
              /\ api = <<>>
        /\ ret.op = "get_local_req_branch" =>
              /\ ret.kind = "Ok"
              /\ ret.str = "pr/" \o ToString(ret.num)
              /\ ret.num = 42 => ret.str = "pr/42"
              /\ api = <<>>
        /\ ret.op = "get_project_id" =>
              /\ ret.kind = "Ok"
              /\ ret.str = "acme/widget"
              /\ api = <<>>

C20_Witness ==
    /\ remote.kind = "GitHub"
    /\ remote.origin = OriginGitHubHttps
    /\ ret.op = "get_remote_req_branch"
    /\ ret.num = 42
    /\ ret.str = "pull/42/head"
    /\ api = <<>>

\* C21 (as claimed): whenever the GitLab identity of an origin is read out
\* (name, namespace and full path all present), the full path ends with the
\* name, and the namespace is the first segment of the full path and a
\* strict prefix of it.
C21_IdentityShape ==
    LET shape(full_path) ==
            /\ \E k \in 0..(Len(full_path) - 1) :
                  Str(SubSeq(full_path, k + 1, Len(full_path))) = remote.name
            /\ \E k \in 1..(Len(full_path) - 1) :
                  /\ Str(SubSeq(full_path, 1, k)) = remote.namespace
                  /\ full_path[k + 1] = "/"
                  /\ \A j \in 1..k : full_path[j] # "/"
    IN  (remote.kind = "GitLab" /\ GitlabProjectFullPathOf[remote.origin].some) =>
            shape(GitlabProjectFullPathOf[remote.origin].v)

\* C22: for SCP-like and scheme://host/path GitLab origins, with or without
\* the .git suffix and with nested groups, the namespace is the first path
\* segment, the name the last segment without .git, and the full path the
\* whole path without the leading slash and the .git suffix.
C22_GitLabIdentity ==
    LET reads(full_path) ==
            /\ remote.origin = OriginGitLabSsh =>
                  /\ remote.namespace = "group"
                  /\ remote.name = "project"
                  /\ full_path = Some(<<"g", "r", "o", "u", "p", "/", "s", "u", "b", "g",
                                        "r", "o", "u", "p", "/", "p", "r", "o", "j", "e",
                                        "c", "t">>)
            /\ remote.origin = OriginEnterpriseHttps =>
                  /\ remote.namespace = "group"
                  /\ remote.name = "project"
                  /\ full_path = Some(<<"g", "r", "o", "u", "p", "/", "p", "r", "o", "j",
                                        "e", "c", "t">>)
            /\ remote.origin = OriginGitProtocol =>
                  /\ remote.namespace = "acme"
                  /\ remote.name = "widget"
                  /\ full_path = Some(<<"a", "c", "m", "e", "/", "w", "i", "d", "g", "e",
                                        "t">>)
    IN  remote.kind = "GitLab" => reads(GitlabProjectFullPathOf[remote.origin])

C22_Witness ==
    /\ ret.op = "get_remote"
    /\ remote.kind = "GitLab"
    /\ remote.origin = OriginGitLabSsh
    /\ remote.namespace = "group"
    /\ remote.name = "project"
    /\ Str(GitlabProjectFullPathOf[remote.origin].v) = "group/subgroup/project"

\* The origins that name the project acme/widget on github.com, in the
\* SCP-like and the https form, with and without the .git suffix.
AcmeWidgetOrigins ==
    {OriginGitHubHttps, OriginGitHubHttpsNoGit, OriginGitHubSsh, OriginGitHubSshGit}

\* C23: the GitHub project name is the owner/repo path, with scheme,
\* user-info, host and a trailing .git removed: the same for the SCP-like
\* and the https form of a project, with or without .git.
C23_GitHubProjectName ==
    (remote.kind = "GitHub" /\ remote.origin \in AcmeWidgetOrigins) =>
        /\ remote.id = "acme/widget"
        /\ remote.name = "acme/widget"
        /\ \A o \in AcmeWidgetOrigins :
              GithubProjectNameOf[o] = GithubProjectNameOf[remote.origin]

C23_Witness ==
    /\ ret.op = "get_remote"
    /\ remote.kind = "GitHub"
    /\ remote.origin = OriginGitHubSshGit
    /\ remote.id = "acme/widget"

\* The global key that holds the API token of the domain of ret'.origin.
ApiKeyName == ReqKey(DomainOf[ret'.origin].v, "apikey")

\* C24: get_remote takes the API key stored for the domain without asking
\* and without writing; with none stored it asks once, stores the trimmed
\* answer under the domain's global key and uses it, so a later call finds
\* it stored; with skip_api_key it neither asks nor writes.
C24_ApiKeyCached ==
    [][(ret'.op = "get_remote" /\ remote'.kind # "None") =>
          /\ ret'.skip =>
                /\ ret'.prompts = 0
                /\ req_config' = req_config
                /\ remote'.api_key = ""
          /\ (~ret'.skip /\ req_config[ApiKeyName].some) =>
                /\ ret'.prompts = 0
                /\ req_config' = req_config
                /\ remote'.api_key = req_config[ApiKeyName].v
          /\ (~ret'.skip /\ ~req_config[ApiKeyName].some) =>
                /\ ret'.prompts = 1
                /\ remote'.api_key = "k"
                /\ req_config' = [req_config EXCEPT ![ApiKeyName] = Some(remote'.api_key)]
      ]_vars

C24_Witness ==
    /\ ret.op = "get_remote"
    /\ remote.kind = "GitLab"
    /\ ~ret.skip
    /\ ret.prompts = 0
    /\ remote.api_key = "k"
    /\ req_config[ReqKey(DomainOf[ret.origin].v, "apikey")] = Some("k")

\* The requests a project-id resolution of the instance can issue.
DirectUrl == remote.api_root \o "/projects/" \o ReplaceSlashes(remote.full_path)
NamespaceUrl == remote.api_root \o "/namespaces/" \o remote.namespace
ListUrls ==
    {remote.api_root \o "/users/" \o ToString(ret.body[2].body.id) \o "/projects",
     remote.api_root \o "/groups/" \o ToString(ret.body[2].body.id)
         \o "/projects?search=" \o remote.name}

\* C25: a project-id resolution issues at most three requests, in the order
\* direct lookup, namespace lookup, project listing: the namespace lookup
\* only after the direct lookup failed, the listing only after the namespace
\* lookup gave a namespace of kind user or group, and nothing after a step
\* that failed.
C25_ResolutionOrder ==
    (ret.op = "get_project_id" /\ remote.kind = "GitLab") =>
        /\ Len(api) <= 3
        /\ Len(api) >= 1 => api[1] = DirectUrl
        /\ Len(api) >= 2 <=> (api # <<>> /\ IsError(ret.body[1]))
        /\ Len(api) >= 2 => api[2] = NamespaceUrl
        /\ Len(api) = 3 <=> (Len(api) >= 2 /\ SearchReaches(ret.body[2]))
        /\ Len(api) = 3 => api[3] \in ListUrls
        /\ (Len(api) = 2 \/ (Len(api) = 1 /\ ~DirectFound)) => ret.kind # "Ok"

C25_Witness ==
    /\ ret.op = "get_project_id"
    /\ remote.kind = "GitLab"
    /\ ret.kind = "Ok"
    /\ Len(api) = 3
    /\ api[2] = "https://gitlab.example.com/api/v4/namespaces/group"
    /\ api[3] = "https://gitlab.example.com/api/v4/groups/9/projects?search=project"

-----------------------------------------------------------------------------
(* What is checked out after a changed checkout *)

\* C26 (as claimed): whenever checkout_branch returns BranchChanged, the
\* branch checked out is the local branch refs/heads/<computed local name>,
\* never a detached HEAD or another ref that resolves under that name.  The
\* code tests the name with revparse_single, which also resolves the
\* remote-tracking ref <remote>/<branch>; the plain checkout of that ref
\* detaches HEAD and BranchChanged is still returned.
C26_ChangedIsOnBranch ==
    (ret.op = "checkout_branch" /\ ret.kind = "Ok" /\ ret.str = "BranchChanged") =>
        HEAD = OnBranch(call.local_name)

\* C26, the consequence (as claimed): a call repeated right after one that
\* returned BranchChanged, with the same arguments, returns BranchUnchanged
\* and runs no git subprocess.
C26_RepeatUnchanged ==
    [][(ret.op = "checkout_branch" /\ ret.kind = "Ok" /\ ret.str = "BranchChanged"
          /\ ret'.op = "checkout_branch" /\ call' = call) =>
          (ret'.str = "BranchUnchanged" /\ cmds' = <<>>)]_vars

-----------------------------------------------------------------------------
(* The stored default remote *)

\* C27 (as claimed): a stored project-local defaultremote is the name of one
\* of the repository's configured remotes, whichever way it was written.
\* set_default_remote stores the name it is given without looking at the
\* remotes, and get_remote_name stores the line typed at its prompt with the
\* newline that ended it.
C27_DefaultRemoteConfigured ==
    GetProjectConfig(config, "defaultremote").some =>
        GetProjectConfig(config, "defaultremote").v \in DOMAIN git_remotes

\* The part of C27 that holds: a default remote get_remote_name guessed and
\* stored (here: origin among several) is a configured remote.
C27_GuessedIsConfigured ==
    [][(ret'.op = "main" /\ ~GetProjectConfig(config, "defaultremote").some
          /\ GuessDefaultRemoteName(DOMAIN git_remotes).some
          /\ GetProjectConfig(config', "defaultremote").some) =>
          GetProjectConfig(config', "defaultremote").v \in DOMAIN git_remotes]_vars

\* A default remote get_remote_name stored after asking is a typed line
\* that names a configured remote once it is trimmed.
C27_PromptedTrimsToConfigured ==
    [][(ret'.op = "main" /\ ~GetProjectConfig(config, "defaultremote").some
          /\ ~GuessDefaultRemoteName(DOMAIN git_remotes).some
          /\ GetProjectConfig(config', "defaultremote").some) =>
          \E line \in RemoteNameLines :
             /\ GetProjectConfig(config', "defaultremote").v = Str(line)
             /\ Str(Trim(line)) \in DOMAIN git_remotes]_vars

\* The prompt's case of C27 happens: the line typed with its newline is
\* stored, and it names no remote.
C27_PromptedStoredUntrimmed ==
    /\ git_remotes = ForkRemotes
    /\ GetProjectConfig(config, "defaultremote") = Some("upstream\n")
    /\ "upstream\n" \notin DOMAIN git_remotes

-----------------------------------------------------------------------------
(* Remote-scoped configuration *)

\* A step of get_config, set_config or delete_config.
ScopedConfigStep == ret'.op \in {"get_config", "set_config", "delete_config"}

\* C28 (as claimed): get_config, set_config and delete_config of a field for
\* one remote leave the stored value of that field for every other remote
\* unchanged, also when a legacy unscoped key is present.  All three migrate
\* the legacy key to req.origin.<field> first, whatever remote they act on.
C28_RemoteIsolation ==
    [][ScopedConfigStep =>
          \A r2 \in RemoteNames \ {ret'.arg} :
              GetString(config', RemoteKey(r2, "projectid"))
                  = GetString(config, RemoteKey(r2, "projectid"))]_vars

\* The part of C28 that holds: with no legacy key present the three calls
\* leave every other remote's value alone.
C28_IsolatedWithoutLegacy ==
    [][(ScopedConfigStep /\ ~GetString(config, ProjectKey("projectid")).some) =>
          \A r2 \in RemoteNames \ {ret'.arg} :
              GetString(config', RemoteKey(r2, "projectid"))
                  = GetString(config, RemoteKey(r2, "projectid"))]_vars

-----------------------------------------------------------------------------
(* Local branch names across remotes *)

\* C29 (as claimed): under a fixed defaultremote configuration the local
\* names checkout_branch computes for two different remotes never collide,
\* whatever the two request branches are.  With defaultremote = origin the
\* branch feature of upstream and the branch req/upstream/feature of origin
\* both get the local name req/upstream/feature.
C29_NoCollision ==
    [][(ret.op = "checkout_branch" /\ ret'.op = "checkout_branch"
          /\ UNCHANGED config /\ call.remote # call'.remote) =>
          call.local_name # call'.local_name]_vars

\* The part of C29 that holds: with no defaultremote configured the names
\* of different remotes differ (no remote name of the model is a prefix of
\* another), and so do the names for one request branch on two remotes
\* under any configuration.
C29_NoCollisionUnsetOrSameBranch ==
    [][(ret.op = "checkout_branch" /\ ret'.op = "checkout_branch"
          /\ UNCHANGED config /\ call.remote # call'.remote
          /\ (~DefaultRemote.some \/ call.local_branch = call'.local_branch)) =>
          call.local_name # call'.local_name]_vars

====
